---- MODULE Spec2Model ----
(***************************************************************************)
(* Model of the matching, classification and variant-detection engine of   *)
(* the UI version mapping tool (package ui_version_check and its pkg/      *)
(* refactoring).  Configs are records, Go strings are TLA+ strings, Go     *)
(* slices are sequences, and every pure function of the source is an       *)
(* operator of the same name computed the way the code computes it.        *)
(***************************************************************************)
EXTENDS Integers, Sequences, FiniteSets, TLC

VARIABLES
    sourceConfig,   \* the source LenderConfig of a call
    config,         \* the other LenderConfig of a call (candidate, target, variant)
    sourceTags,     \* the source context of the Tag Matcher, a map[string]string
    files,          \* the corpus: the JSON documents on disk, in traversal order
    lenderConfigID, \* the config ID a query asks for
    leadSource,     \* the lead-source override of a query ("" when not supplied)
    out             \* the value returned by the last call

vars == <<sourceConfig, config, sourceTags, files, lenderConfigID, leadSource, out>>

(***************************************************************************)
(* Bounds of the input domains.                                            *)
(***************************************************************************)
MaxTags == 2
MaxCorpus == 3
MaxFlow == 2

(***************************************************************************)
(* Go helpers.                                                             *)
(***************************************************************************)
Tag(n, v) == [Name |-> n, Value |-> v]

Range(s) == {s[i] : i \in 1..Len(s)}

\* all sequences over S of length at most n
SeqsUpTo(S, n) == UNION {[1..k -> S] : k \in 0..n}

\* map[string]string built by "for _, tag := range tags { m[tag.Name] = tag.Value }",
\* read at key name: the value of the last tag of that name, "" when there is none
RECURSIVE MapValue(_, _)
MapValue(tags, name) ==
    IF tags = <<>> THEN ""
    ELSE IF tags[Len(tags)].Name = name THEN tags[Len(tags)].Value
    ELSE MapValue(SubSeq(tags, 1, Len(tags) - 1), name)

\* map[string][]string built by appending every tag's value under its name,
\* read at key name: the values of the tags of that name, in tag order
RECURSIVE ValuesOf(_, _)
ValuesOf(tags, name) ==
    IF tags = <<>> THEN <<>>
    ELSE IF Head(tags).Name = name
         THEN <<Head(tags).Value>> \o ValuesOf(Tail(tags), name)
         ELSE ValuesOf(Tail(tags), name)

\* number of occurrences of v in the slice s (the map[string]int counters)
RECURSIVE Count(_, _)
Count(s, v) ==
    IF s = <<>> THEN 0
    ELSE (IF Head(s) = v THEN 1 ELSE 0) + Count(Tail(s), v)

\* strings.Join
RECURSIVE Join(_, _)
Join(elems, sep) ==
    IF elems = <<>> THEN ""
    ELSE IF Len(elems) = 1 THEN elems[1]
    ELSE elems[1] \o sep \o Join(Tail(elems), sep)

\* strings.Contains
Contains(s, substr) ==
    \E i \in 1..(Len(s) - Len(substr) + 1) : SubSeq(s, i, i + Len(substr) - 1) = substr

\* fmt.Sprintf("%d", n) for n >= 0
Digits == <<"0", "1", "2", "3", "4", "5", "6", "7", "8", "9">>

RECURSIVE Itoa(_)
Itoa(n) ==
    IF n < 10 THEN Digits[n + 1]
    ELSE Itoa(n \div 10) \o Digits[(n % 10) + 1]

(***************************************************************************)
(* Flow Classifier.                                                        *)
(***************************************************************************)
RECURSIVE FirstValue(_, _, _)
FirstValue(tags, name, default) ==
    IF tags = <<>> THEN default
    ELSE IF Head(tags).Name = name THEN Head(tags).Value
    ELSE FirstValue(Tail(tags), name, default)

HasTag(tags, name) == \E i \in 1..Len(tags) : tags[i].Name = name

\* a classifier that scans once and takes the first tag of either name
RECURSIVE GetFlowTypeFromTags_SinglePass(_)
GetFlowTypeFromTags_SinglePass(tags) ==
    IF tags = <<>> THEN "unknown"
    ELSE IF Head(tags).Name \in {"esign_flow_type", "flow_type"} THEN Head(tags).Value
    ELSE GetFlowTypeFromTags_SinglePass(Tail(tags))

GetFlowTypeFromTags(tags) ==
    IF HasTag(tags, "esign_flow_type") THEN FirstValue(tags, "esign_flow_type", "")
    ELSE IF HasTag(tags, "flow_type") THEN FirstValue(tags, "flow_type", "")
    ELSE "unknown"

\* tags is the []Tag the map[string][]string was collected from
GetFlowTypeFromTagsMap(tags) ==
    IF Len(ValuesOf(tags, "esign_flow_type")) > 0 THEN ValuesOf(tags, "esign_flow_type")[1]
    ELSE IF Len(ValuesOf(tags, "flow_type")) > 0 THEN ValuesOf(tags, "flow_type")[1]
    ELSE "unknown"

\* srcTags is the map[string]string, a function from tag names to values
GetFlowTypeFromSourceTags(srcTags) ==
    IF srcTags["esign_flow_type"] # "" THEN srcTags["esign_flow_type"]
    ELSE IF srcTags["flow_type"] # "" THEN srcTags["flow_type"]
    ELSE ""

(***************************************************************************)
(* Variant Detector.                                                       *)
(***************************************************************************)
criticalTags == <<"product_code", "lead_source", "telco_code", "flow_type", "esign_flow_type">>

\* a comparison that forgets the value counters
AreTagValuesEqual_LengthOnly(slice1, slice2) ==
    Len(slice1) = Len(slice2)

AreTagValuesEqual(slice1, slice2) ==
    /\ Len(slice1) = Len(slice2)
    /\ \A k \in Range(slice1) : Count(slice2, k) = Count(slice1, k)

HasSameBasicTags(c1, c2) ==
    \A i \in 1..Len(criticalTags) :
        LET tagName == criticalTags[i] IN
        \/ AreTagValuesEqual(ValuesOf(c1.Tags, tagName), ValuesOf(c2.Tags, tagName))
        \/ /\ tagName \in {"flow_type", "esign_flow_type"}
           /\ GetFlowTypeFromTagsMap(c1.Tags) = GetFlowTypeFromTagsMap(c2.Tags)

AreUIFlowsIdentical(flow1, flow2) ==
    /\ Len(flow1) = Len(flow2)
    /\ \A i \in 1..Len(flow1) : flow1[i] = flow2[i]

\* a detector that tests the weight of its first config only
IsABTestingVariant_FirstWeightOnly(c1, c2) ==
    IF c1.Name # c2.Name THEN FALSE
    ELSE IF ~HasSameBasicTags(c1, c2) THEN FALSE
    ELSE IF AreUIFlowsIdentical(c1.UIFlow, c2.UIFlow) THEN FALSE
    ELSE IF c1.Weight <= 0 THEN FALSE
    ELSE TRUE

IsABTestingVariant(c1, c2) ==
    IF c1.Name # c2.Name THEN FALSE
    ELSE IF ~HasSameBasicTags(c1, c2) THEN FALSE
    ELSE IF AreUIFlowsIdentical(c1.UIFlow, c2.UIFlow) THEN FALSE
    ELSE IF c1.Weight <= 0 \/ c2.Weight <= 0 THEN FALSE
    ELSE TRUE

\* FindUIFlowDifferences, from index i (0-based, as in the code) on
RECURSIVE FindUIFlowDifferencesFrom(_, _, _)
FindUIFlowDifferencesFrom(flow1, flow2, i) ==
    LET maxLen == IF Len(flow2) > Len(flow1) THEN Len(flow2) ELSE Len(flow1)
        step1 == IF i < Len(flow1) THEN flow1[i + 1] ELSE ""
        step2 == IF i < Len(flow2) THEN flow2[i + 1] ELSE ""
        difference ==
            IF step1 = step2 THEN <<>>
            ELSE IF step1 # "" /\ step2 # ""
                 THEN <<"Step " \o Itoa(i + 1) \o ": " \o step1 \o " vs " \o step2>>
            ELSE IF step1 # ""
                 THEN <<"Step " \o Itoa(i + 1) \o ": " \o step1 \o " (missing in variant)">>
            ELSE <<"Step " \o Itoa(i + 1) \o ": " \o step2 \o " (extra in variant)">>
    IN  IF i >= maxLen THEN <<>>
        ELSE difference \o FindUIFlowDifferencesFrom(flow1, flow2, i + 1)

\* a comparison that reports every index of the longer flow, equal or not
FindUIFlowDifferences_EveryStep(flow1, flow2) ==
    [i \in 1..(IF Len(flow2) > Len(flow1) THEN Len(flow2) ELSE Len(flow1)) |->
        "Step " \o Itoa(i) \o ": "
        \o (IF i <= Len(flow1) THEN flow1[i] ELSE "") \o " vs "
        \o (IF i <= Len(flow2) THEN flow2[i] ELSE "")]

FindUIFlowDifferences(flow1, flow2) == FindUIFlowDifferencesFrom(flow1, flow2, 0)

ABTestingVariant(cfg, differences) ==
    [ConfigID |-> cfg.ID, Name |-> cfg.Name, Weight |-> cfg.Weight,
     UIFlow |-> cfg.UIFlow, Differences |-> differences]

RECURSIVE DetectABTestingVariants(_, _)
DetectABTestingVariants(srcConfig, allConfigs) ==
    IF allConfigs = <<>> THEN <<>>
    ELSE LET cfg == Head(allConfigs)
             rest == DetectABTestingVariants(srcConfig, Tail(allConfigs))
         IN  IF cfg.ID = srcConfig.ID THEN rest
             ELSE IF IsABTestingVariant(srcConfig, cfg)
                  THEN <<ABTestingVariant(cfg, FindUIFlowDifferences(srcConfig.UIFlow,
                                                                   cfg.UIFlow))>> \o rest
             ELSE rest

\* sum of the weights of a list of variants
RECURSIVE SumWeights(_)
SumWeights(variants) ==
    IF variants = <<>> THEN 0
    ELSE Head(variants).Weight + SumWeights(Tail(variants))

\* a group whose total is the weight of its first member
ABTestingGroup_SourceWeight(cfg, variants) ==
    [GroupName |-> cfg.Name,
     Variants |-> <<ABTestingVariant(cfg, <<"Original variant">>)>> \o variants,
     TotalWeight |-> cfg.Weight]

\* the group FindAllABTestingGroups builds for a config and its variants: the
\* config first, then the variants, the total accumulated over all of them
ABTestingGroup(cfg, variants) ==
    [GroupName |-> cfg.Name,
     Variants |-> <<ABTestingVariant(cfg, <<"Original variant">>)>> \o variants,
     TotalWeight |-> cfg.Weight + SumWeights(variants)]

\* the loop of FindAllABTestingGroups over allConfigs; processed is the set of
\* IDs whose processedConfigs entry is true
RECURSIVE GroupLoop(_, _, _, _)
GroupLoop(configs, allConfigs, groups, processed) ==
    IF configs = <<>> THEN groups
    ELSE LET cfg == Head(configs)
             variants == DetectABTestingVariants(cfg, allConfigs)
         IN  IF cfg.ID \in processed
             THEN GroupLoop(Tail(configs), allConfigs, groups, processed)
             ELSE IF Len(variants) > 0
             THEN GroupLoop(Tail(configs), allConfigs,
                            Append(groups, ABTestingGroup(cfg, variants)),
                            processed \cup {cfg.ID}
                                \cup {variants[i].ConfigID : i \in 1..Len(variants)})
             ELSE GroupLoop(Tail(configs), allConfigs, groups, processed)

\* FindAllABTestingGroups on the configs of the folder
FindAllABTestingGroups(allConfigs) == GroupLoop(allConfigs, allConfigs, <<>>, {})

(***************************************************************************)
(* Tag Matcher.                                                            *)
(***************************************************************************)
\* the source context SearchRelatedConfigDetailed builds before its loop: the
\* source's tags as a map (the last tag of a name wins), lead_source replaced
\* by the query's lead source when one is given
SourceTags(tags, ls) ==
    [n \in Range(criticalTags) |->
        IF n = "lead_source" /\ ls # "" THEN ls ELSE MapValue(tags, n)]

\* one entry of matches together with its entry of reasons
Signal(tag, reason) == [tag |-> tag, reason |-> reason]

ProductCodeFails(cfg, srcTags) ==
    /\ srcTags["product_code"] # ""
    /\ MapValue(cfg.Tags, "product_code") # srcTags["product_code"]

ProductCodeSignal(cfg, srcTags) ==
    IF srcTags["product_code"] # ""
       /\ MapValue(cfg.Tags, "product_code") = srcTags["product_code"]
    THEN <<Signal(Tag("product_code", srcTags["product_code"]), "same product_code")>>
    ELSE <<>>

HasLeadSourceMatch(cfg, srcTags) ==
    \E i \in 1..Len(ValuesOf(cfg.Tags, "lead_source")) :
        ValuesOf(cfg.Tags, "lead_source")[i] = srcTags["lead_source"]

\* a lead-source gate that never closes
LeadSourceFails_Never(cfg, srcTags) == FALSE

LeadSourceFails(cfg, srcTags) ==
    /\ srcTags["lead_source"] # ""
    /\ ~HasLeadSourceMatch(cfg, srcTags)

LeadSourceSignal(cfg, srcTags) ==
    IF srcTags["lead_source"] # "" /\ HasLeadSourceMatch(cfg, srcTags)
    THEN <<Signal(Tag("lead_source", srcTags["lead_source"]), "same lead_source")>>
    ELSE <<>>

HasTelcoMatch(cfg, srcTags) ==
    \E i \in 1..Len(ValuesOf(cfg.Tags, "telco_code")) :
        ValuesOf(cfg.Tags, "telco_code")[i] = srcTags["telco_code"]

TelcoCodeSignal(cfg, srcTags) ==
    IF srcTags["telco_code"] # "" /\ HasTelcoMatch(cfg, srcTags)
    THEN <<Signal(Tag("telco_code", srcTags["telco_code"]),
                  "shared telco_code: " \o srcTags["telco_code"])>>
    ELSE <<>>

\* a flow-type check that records a difference only
FlowTypeSignal_OnlyDifferent(cfg, srcTags) ==
    LET sourceFlowType == GetFlowTypeFromSourceTags(srcTags)
        configFlowType == GetFlowTypeFromTags(cfg.Tags)
    IN  IF sourceFlowType # "" /\ configFlowType # "" /\ configFlowType # sourceFlowType
        THEN <<Signal(Tag("flow_type", configFlowType),
                      "different flow_type: " \o configFlowType)>>
        ELSE <<>>

FlowTypeSignal(cfg, srcTags) ==
    LET sourceFlowType == GetFlowTypeFromSourceTags(srcTags)
        configFlowType == GetFlowTypeFromTags(cfg.Tags)
    IN  IF sourceFlowType # "" /\ configFlowType # ""
        THEN IF configFlowType = sourceFlowType
             THEN <<Signal(Tag("flow_type", configFlowType), "same flow_type")>>
             ELSE <<Signal(Tag("flow_type", configFlowType),
                           "different flow_type: " \o configFlowType)>>
        ELSE <<>>

\* the matcher's return value and the two values it writes through its pointer
\* parameters; an early "return false" leaves the caller's nil slice and empty
\* string untouched
NotCompatible == [ok |-> FALSE, matchedTags |-> <<>>, matchReason |-> ""]

\* a verdict that passes whatever got through the gates
MatcherResult_NoSignalNeeded(signals) ==
    [ok |-> TRUE,
     matchedTags |-> [i \in 1..Len(signals) |-> signals[i].tag],
     matchReason |-> Join([i \in 1..Len(signals) |-> signals[i].reason], ", ")]

MatcherResult(signals) ==
    [ok |-> Len(signals) >= 1,
     matchedTags |-> [i \in 1..Len(signals) |-> signals[i].tag],
     matchReason |-> Join([i \in 1..Len(signals) |-> signals[i].reason], ", ")]

\* a matcher for which a telco_code the candidate does not share closes a gate
IsCompatibleByTagsDetailedWithLeadSource_TelcoGate(cfg, srcTags) ==
    IF ProductCodeFails(cfg, srcTags) THEN NotCompatible
    ELSE IF LeadSourceFails(cfg, srcTags) THEN NotCompatible
    ELSE IF srcTags["telco_code"] # "" /\ ~HasTelcoMatch(cfg, srcTags) THEN NotCompatible
    ELSE MatcherResult(ProductCodeSignal(cfg, srcTags) \o LeadSourceSignal(cfg, srcTags)
                       \o TelcoCodeSignal(cfg, srcTags) \o FlowTypeSignal(cfg, srcTags))

IsCompatibleByTagsDetailedWithLeadSource(cfg, srcTags) ==
    IF ProductCodeFails(cfg, srcTags) THEN NotCompatible
    ELSE IF LeadSourceFails(cfg, srcTags) THEN NotCompatible
    ELSE MatcherResult(ProductCodeSignal(cfg, srcTags) \o LeadSourceSignal(cfg, srcTags)
                       \o TelcoCodeSignal(cfg, srcTags) \o FlowTypeSignal(cfg, srcTags))

\* a matcher that forgets the name check
IsCompatibleByTagsDetailedWithLeadSourceAndName_NoNameCheck(cfg, srcTags, srcName) ==
    IsCompatibleByTagsDetailedWithLeadSource(cfg, srcTags)

IsCompatibleByTagsDetailedWithLeadSourceAndName(cfg, srcTags, srcName) ==
    IF cfg.Name = srcName THEN NotCompatible
    ELSE IsCompatibleByTagsDetailedWithLeadSource(cfg, srcTags)

(***************************************************************************)
(* Config Repository and Relation Resolver.                                *)
(***************************************************************************)
\* a JSON document on disk: its file name and the LenderConfig it parses to
File(name, cfg) == [name |-> name, config |-> cfg]

\* ListFilesContainingKeyword: the files whose name contains the ID's digits,
\* in traversal order
ListFilesContainingKeyword(fs, keyword) ==
    SelectSeq(fs, LAMBDA f : Contains(f.name, Itoa(keyword)))

\* strings.HasSuffix
HasSuffix(str, suffix) ==
    /\ Len(str) >= Len(suffix)
    /\ SubSeq(str, Len(str) - Len(suffix) + 1, Len(str)) = suffix

\* GetAllLenderConfigsFromPath: the configs of the documents whose file name
\* ends in ".json", in traversal order
GetAllLenderConfigsFromPath(fs) ==
    LET read == SelectSeq(fs, LAMBDA f : HasSuffix(f.name, ".json"))
    IN  [i \in 1..Len(read) |-> read[i].config]

RelatedConfigResult(cfg, matchReason, matchedTags, isABTesting, group, abVariantIDs) ==
    [ConfigID |-> cfg.ID, Name |-> cfg.Name, FlowType |-> GetFlowTypeFromTags(cfg.Tags),
     UIVersion |-> cfg.UIVersion, Weight |-> cfg.Weight, MatchReason |-> matchReason,
     MatchedTags |-> matchedTags, IsABTesting |-> isABTesting,
     ABTestingGroup |-> group, ABVariants |-> abVariantIDs]

\* the loop of SearchRelatedConfigDetailed over allConfigs; results holds what
\* the earlier iterations appended, and resultMap[id] is true exactly for the
\* ConfigIDs in it
RECURSIVE SearchLoop(_, _, _, _, _, _)
SearchLoop(allConfigs, results, id, srcTags, srcName, abVariants) ==
    IF allConfigs = <<>> THEN results
    ELSE
    LET cfg == Head(allConfigs)
        inResultMap == \E i \in 1..Len(results) : results[i].ConfigID = cfg.ID
        hits == SelectSeq(abVariants, LAMBDA v : v.ConfigID = cfg.ID)
        isABTesting == hits # <<>>
        abVariantIDs == [i \in 1..Len(abVariants) |-> abVariants[i].ConfigID]
        abReason == "A/B Testing variant (Weight: " \o Itoa(cfg.Weight)
                    \o ", Differences: " \o Join(hits[1].Differences, "; ") \o ")"
        match == IsCompatibleByTagsDetailedWithLeadSourceAndName(cfg, srcTags, srcName)
        appended ==
            IF ~isABTesting /\ match.ok
            THEN <<RelatedConfigResult(cfg, match.matchReason, match.matchedTags,
                                       FALSE, "", <<>>)>>
            ELSE IF isABTesting
            THEN <<RelatedConfigResult(cfg, abReason, <<>>, TRUE,
                                       "A/B Test: " \o cfg.Name, abVariantIDs)>>
            ELSE <<>>
    IN  IF cfg.ID = id \/ inResultMap
        THEN SearchLoop(Tail(allConfigs), results, id, srcTags, srcName, abVariants)
        ELSE SearchLoop(Tail(allConfigs), results \o appended, id, srcTags, srcName,
                        abVariants)

\* a search that evaluates every document on its own, without the resultMap
SearchRelatedConfigDetailed_PerDocument(fs, srcConfig, id, ls) ==
    LET allConfigs == GetAllLenderConfigsFromPath(fs)
        abVariants == DetectABTestingVariants(srcConfig, allConfigs)
        RECURSIVE Each(_)
        Each(cs) ==
            IF cs = <<>> THEN <<>>
            ELSE SearchLoop(<<Head(cs)>>, <<>>, id, SourceTags(srcConfig.Tags, ls),
                            srcConfig.Name, abVariants) \o Each(Tail(cs))
    IN  Each(allConfigs)

\* SearchRelatedConfigDetailed once the source config is read
SearchRelatedConfigDetailed(fs, srcConfig, id, ls) ==
    SearchLoop(GetAllLenderConfigsFromPath(fs), <<>>, id, SourceTags(srcConfig.Tags, ls),
               srcConfig.Name,
               DetectABTestingVariants(srcConfig, GetAllLenderConfigsFromPath(fs)))

(***************************************************************************)
(* Journey Synthesizer: the transition label.                              *)
(***************************************************************************)
\* a labeller that reads the label off the match reason
DetermineFlowType_FromReason(srcConfig, targetConfig, matchReason) ==
    IF Contains(matchReason, "auto_pcb") THEN "normal_to_auto_pcb"
    ELSE IF GetFlowTypeFromTags(srcConfig.Tags) = GetFlowTypeFromTags(targetConfig.Tags)
         THEN "normal"
    ELSE GetFlowTypeFromTags(srcConfig.Tags) \o "_to_" \o GetFlowTypeFromTags(targetConfig.Tags)

DetermineFlowType(srcConfig, targetConfig, matchReason) ==
    LET sourceFlowType == GetFlowTypeFromTags(srcConfig.Tags)
        targetFlowType == GetFlowTypeFromTags(targetConfig.Tags)
    IN  IF sourceFlowType = targetFlowType THEN "normal"
        ELSE sourceFlowType \o "_to_" \o targetFlowType

(***************************************************************************)
(* Journey Synthesizer: the steps of a journey.                            *)
(***************************************************************************)
SubUIVersionByCondition(condition, subUIVersion) ==
    [Condition |-> condition, SubUIVersion |-> subUIVersion]

\* a Step; ID is the 0-based step number of the source, and a nil or empty
\* SubUIVersionByConditions slice is the empty sequence
Step(id, name, mainUIVersion, subUIVersion, subUIVersionByConditions) ==
    [ID |-> id, Name |-> name, MainUIVersion |-> mainUIVersion,
     SubUIVersion |-> subUIVersion,
     SubUIVersionByConditions |-> subUIVersionByConditions]

getSubUIVersionForStep(stepName, cfg) ==
    IF stepName = "app_form.personal_info" THEN "v1.0-c1" ELSE ""

getSubUIVersionConditions(stepName, cfg) == <<>>

\* standard steps that take the step's override from getSubUIVersionForStep
GenerateStandardJourneySteps_WithOverrides(uiFlow, mainUIVersion) ==
    [i \in 1..Len(uiFlow) |->
        Step(i - 1, uiFlow[i], mainUIVersion,
             getSubUIVersionForStep(uiFlow[i], mainUIVersion), <<>>)]

GenerateStandardJourneySteps(uiFlow, mainUIVersion) ==
    [i \in 1..Len(uiFlow) |-> Step(i - 1, uiFlow[i], mainUIVersion, "", <<>>)]

commonSteps == <<"otp", "app_form.basic_info">>

\* the loop over commonSteps of the rejection branch: stepID, the number of
\* steps appended so far, is also the index read in the source's UIFlow
RECURSIVE RejectionCommonSteps(_, _, _)
RejectionCommonSteps(names, srcConfig, steps) ==
    IF names = <<>> THEN steps
    ELSE LET stepID == Len(steps)
         IN  IF stepID < Len(srcConfig.UIFlow) /\ srcConfig.UIFlow[stepID + 1] = Head(names)
             THEN RejectionCommonSteps(Tail(names), srcConfig,
                      Append(steps, Step(stepID, Head(names), srcConfig.UIVersion,
                                         "", <<>>)))
             ELSE RejectionCommonSteps(Tail(names), srcConfig, steps)

\* a rejection branch whose terminal steps stay on the source's UI version
RejectionSteps_SourceVersion(srcConfig, targetConfig) ==
    LET common == RejectionCommonSteps(commonSteps, srcConfig, <<>>)
        stepID == Len(common)
    IN  common \o
        <<Step(stepID, "ekyc.selfie.flash", srcConfig.UIVersion, "", <<>>),
          Step(stepID + 1, "failure", srcConfig.UIVersion, "", <<>>)>>

\* the rejection branch of GenerateFullJourneySteps
RejectionSteps(srcConfig, targetConfig) ==
    LET common == RejectionCommonSteps(commonSteps, srcConfig, <<>>)
        stepID == Len(common)
    IN  common \o
        <<Step(stepID, "ekyc.selfie.flash", targetConfig.UIVersion, "", <<>>),
          Step(stepID + 1, "failure", targetConfig.UIVersion, "", <<>>)>>

\* an initial table that lacks its last step
initialSteps_Nine ==
    <<"otp", "app_form.basic_info", "appraising.quick_approval",
      "app_form.personal_info", "ekyc.selfie.active", "appraising.second_approval",
      "ekyc.id_card", "ekyc.confirm", "appraising.third_approval">>

initialSteps ==
    <<"otp", "app_form.basic_info", "appraising.quick_approval",
      "app_form.personal_info", "ekyc.selfie.active", "appraising.second_approval",
      "ekyc.id_card", "ekyc.confirm", "appraising.third_approval",
      "appraising.fourth_approval">>

automatedSteps ==
    <<"inform.success", "app_form.contact_info", "appraising.fifth_approval",
      "esign.intro", "esign.review", "esign.otp", "app_form.card_design",
      "app_form.personalize_reward", "ekyc.nfc_scan", "appraising.nfc_verify">>

\* the steps of the initial table, on the source's UI version
InitialSteps(srcConfig) ==
    [i \in 1..Len(initialSteps) |->
        Step(i - 1, initialSteps[i], srcConfig.UIVersion,
             getSubUIVersionForStep(initialSteps[i], srcConfig),
             getSubUIVersionConditions(initialSteps[i], srcConfig))]

\* an automated step whose conditional rule comes with a static override
AutomatedStep_BothModes(stepID, stepName, targetConfig, flowType) ==
    Step(stepID, stepName, targetConfig.UIVersion,
         IF stepName \in {"inform.success", "app_form.contact_info",
                          "appraising.fifth_approval", "esign.intro"}
         THEN "v1.0-c1"
         ELSE IF stepName = "esign.review"
         THEN (IF Contains(flowType, "semi") THEN "v1.0-semi-nfc" ELSE "v1.0-auto-nfc")
         ELSE "",
         IF stepName = "inform.success"
         THEN <<SubUIVersionByCondition(
                    "communication_call=success, lead_source=organic",
                    IF Contains(flowType, "semi") THEN "v1.1-semi" ELSE "v1.1-auto")>>
         ELSE <<>>)

\* one step of the automated table: the switch on stepName
AutomatedStep(stepID, stepName, targetConfig, flowType) ==
    Step(stepID, stepName, targetConfig.UIVersion,
         IF stepName \in {"app_form.contact_info", "appraising.fifth_approval",
                          "esign.intro"}
         THEN "v1.0-c1"
         ELSE IF stepName = "esign.review"
         THEN (IF Contains(flowType, "semi") THEN "v1.0-semi-nfc" ELSE "v1.0-auto-nfc")
         ELSE "",
         IF stepName = "inform.success"
         THEN <<SubUIVersionByCondition(
                    "communication_call=success, lead_source=organic",
                    IF Contains(flowType, "semi") THEN "v1.1-semi" ELSE "v1.1-auto")>>
         ELSE <<>>)

\* the steps of the automated table, numbered after the initial ones
AutomatedSteps(stepID, targetConfig, flowType) ==
    [i \in 1..Len(automatedSteps) |->
        AutomatedStep(stepID + i - 1, automatedSteps[i], targetConfig, flowType)]

\* the cif/diff branch
CifSteps(targetConfig, flowType) ==
    <<Step(0, "cif.confirm", targetConfig.UIVersion, "", <<>>)>> \o
    (IF ~Contains(flowType, "no_branch")
     THEN <<Step(1, "appraising.cif", targetConfig.UIVersion, "", <<>>)>>
     ELSE <<>>)

\* a step generator that tests auto/semi before rejection
GenerateFullJourneySteps_AutoFirst(srcConfig, targetConfig, flowType) ==
    IF srcConfig.ID = targetConfig.ID
    THEN GenerateStandardJourneySteps(srcConfig.UIFlow, srcConfig.UIVersion)
    ELSE IF Contains(flowType, "auto") \/ Contains(flowType, "semi")
    THEN InitialSteps(srcConfig) \o
         AutomatedSteps(Len(initialSteps), targetConfig, flowType)
    ELSE IF Contains(flowType, "rejection")
    THEN RejectionSteps(srcConfig, targetConfig)
    ELSE IF Contains(flowType, "cif") \/ Contains(flowType, "diff")
    THEN CifSteps(targetConfig, flowType)
    ELSE GenerateStandardJourneySteps(targetConfig.UIFlow, targetConfig.UIVersion)

GenerateFullJourneySteps(srcConfig, targetConfig, flowType) ==
    IF srcConfig.ID = targetConfig.ID
    THEN GenerateStandardJourneySteps(srcConfig.UIFlow, srcConfig.UIVersion)
    ELSE IF Contains(flowType, "rejection")
    THEN RejectionSteps(srcConfig, targetConfig)
    ELSE IF Contains(flowType, "auto") \/ Contains(flowType, "semi")
    THEN InitialSteps(srcConfig) \o
         AutomatedSteps(Len(initialSteps), targetConfig, flowType)
    ELSE IF Contains(flowType, "cif") \/ Contains(flowType, "diff")
    THEN CifSteps(targetConfig, flowType)
    ELSE GenerateStandardJourneySteps(targetConfig.UIFlow, targetConfig.UIVersion)

(***************************************************************************)
(* Journey Synthesizer: journeys and the journey template.                 *)
(***************************************************************************)
GenerateJourneyFromTemplate(sourceConfigID, targetConfigID, flowType, condition, description, steps) ==
    [ID |-> "from_" \o Itoa(sourceConfigID) \o "_to_" \o Itoa(targetConfigID),
     FlowType |-> flowType, FromLenderConfigID |-> sourceConfigID,
     ToLenderConfigID |-> targetConfigID, Active |-> TRUE, Condition |-> condition,
     Description |-> description, Steps |-> steps]

GenerateConditionFromMatchReason(matchReason) ==
    IF Contains(matchReason, "different flow_type") THEN "flow_routing_condition == true"
    ELSE IF Contains(matchReason, "same product_code") THEN "product_eligibility == true"
    ELSE IF Contains(matchReason, "same lead_source") THEN "lead_source_match == true"
    ELSE IF Contains(matchReason, "shared telco_code") THEN "telco_compatibility == true"
    ELSE "routing_condition == true"

GenerateDescriptionFromFlowType(flowType, configName) ==
    IF Contains(flowType, "rejection") THEN "Rejection flow"
    ELSE IF Contains(flowType, "auto") THEN "Automated flow"
    ELSE IF Contains(flowType, "semi") THEN "Semi-automated flow"
    ELSE IF Contains(flowType, "manual") THEN "Manual review flow"
    ELSE IF Contains(flowType, "cif") THEN "CIF verification flow"
    ELSE IF Contains(flowType, "diff") THEN "Different information flow"
    ELSE IF flowType = "normal" THEN "Normal flow"
    ELSE "Flow to " \o configName

\* SearchLenderConfigID: the files found for the ID; the first one is used
SearchLenderConfigID(fs, id) == ListFilesContainingKeyword(fs, id)

\* the loop of GenerateJourneyTemplate over relatedConfigs; acc holds the
\* relatedConfigIDs and the journeys of the earlier iterations
RECURSIVE JourneyLoop(_, _, _, _, _)
JourneyLoop(fs, srcConfig, sourceConfigID, relatedConfigs, acc) ==
    IF relatedConfigs = <<>> THEN acc
    ELSE
    LET relatedConfig == Head(relatedConfigs)
        found == SearchLenderConfigID(fs, relatedConfig.ConfigID)
        targetConfig == found[1].config
        flowType == DetermineFlowType(srcConfig, targetConfig, relatedConfig.MatchReason)
        journey == GenerateJourneyFromTemplate(
                       sourceConfigID, relatedConfig.ConfigID, flowType,
                       GenerateConditionFromMatchReason(relatedConfig.MatchReason),
                       GenerateDescriptionFromFlowType(flowType, relatedConfig.Name),
                       GenerateFullJourneySteps(srcConfig, targetConfig, flowType))
        ids == Append(acc.RelatedConfigIDs, relatedConfig.ConfigID)
    IN  IF relatedConfig.IsABTesting
        THEN JourneyLoop(fs, srcConfig, sourceConfigID, Tail(relatedConfigs), acc)
        ELSE IF found = <<>>
        THEN JourneyLoop(fs, srcConfig, sourceConfigID, Tail(relatedConfigs),
                         [acc EXCEPT !.RelatedConfigIDs = ids])
        ELSE JourneyLoop(fs, srcConfig, sourceConfigID, Tail(relatedConfigs),
                         [acc EXCEPT !.RelatedConfigIDs = ids,
                                     !.Journeys = Append(@, journey)])

\* GenerateJourneyTemplate once the source config is read
GenerateJourneyTemplate(fs, srcConfig, sourceConfigID, relatedConfigs) ==
    LET standardJourney ==
            GenerateJourneyFromTemplate(
                sourceConfigID, sourceConfigID, "normal", "", "Normal flow",
                GenerateStandardJourneySteps(srcConfig.UIFlow, srcConfig.UIVersion))
        acc == JourneyLoop(fs, srcConfig, sourceConfigID, relatedConfigs,
                           [RelatedConfigIDs |-> <<>>, Journeys |-> <<standardJourney>>])
    IN  [SearchValue |-> sourceConfigID, SearchType |-> "lender_config_id",
         RelatedConfigIDs |-> acc.RelatedConfigIDs, Journeys |-> acc.Journeys]

(***************************************************************************)
(* Input domains.                                                          *)
(***************************************************************************)
LenderConfig(id, name, tags, uiVersion, uiFlow, weight) ==
    [ID |-> id, Name |-> name, Tags |-> tags, UIVersion |-> uiVersion,
     UIFlow |-> uiFlow, Weight |-> weight]

NoConfig == LenderConfig(0, "", <<>>, "", <<>>, 0)
NoTags == [n \in Range(criticalTags) |-> ""]
NoCall == [op |-> "none"]

Names == {"v1.0.collect.organic", "v1.0.collect.paid"}
Weights == {0, 1}
UIFlows == {<<>>, <<"otp", "ekyc.selfie.active">>, <<"otp", "ekyc.selfie.flash">>}

\* tags of the variant detector's inputs: every critical name, one name with
\* two values, and an esign/generic pair of equal and of different value
VariantTagPool ==
    {Tag("product_code", "P1"), Tag("lead_source", "organic"), Tag("lead_source", "paid"),
     Tag("telco_code", "T1"), Tag("flow_type", "auto_pcb"),
     Tag("esign_flow_type", "auto_pcb"), Tag("esign_flow_type", "semi")}

VariantTagLists == SeqsUpTo(VariantTagPool, MaxTags)

\* pairs of configs of one name, different flows and positive weights, whose
\* tags range over all tag lists
TagVariedPairs ==
    {<<LenderConfig(9054, "v1.0.collect.organic", t1, "v9.1.5.0",
                    <<"otp", "ekyc.selfie.active">>, 1),
       LenderConfig(9101, "v1.0.collect.organic", t2, "v9.1.5.0",
                    <<"otp", "ekyc.selfie.flash">>, 1)>> :
        t1 \in VariantTagLists, t2 \in VariantTagLists}

\* pairs of configs whose names, flows and weights range over all combinations
ShapeVariedPairs ==
    {<<LenderConfig(9054, "v1.0.collect.organic", t1, "v9.1.5.0", f1, w1),
       LenderConfig(9101, n2, t2, "v9.1.5.0", f2, w2)>> :
        t1 \in SeqsUpTo({Tag("lead_source", "organic")}, 1),
        t2 \in SeqsUpTo({Tag("lead_source", "organic")}, 1),
        n2 \in Names, f1 \in UIFlows, f2 \in UIFlows, w1 \in Weights, w2 \in Weights}

(***************************************************************************)
(* Variant detection on a pair of configs.                                 *)
(***************************************************************************)
InitVariant ==
    /\ \E p \in TagVariedPairs \cup ShapeVariedPairs :
          /\ sourceConfig = p[1]
          /\ config = p[2]
    /\ sourceTags = NoTags
    /\ files = <<>>
    /\ lenderConfigID = 0
    /\ leadSource = ""
    /\ out = NoCall

\* DetectABTestingVariants' test of one corpus member against the source
CallIsABTestingVariant ==
    /\ out.op = "none"
    /\ out' = [op |-> "IsABTestingVariant",
               result |-> IsABTestingVariant(sourceConfig, config)]
    /\ UNCHANGED <<sourceConfig, config, sourceTags, files, lenderConfigID, leadSource>>

NextVariant == CallIsABTestingVariant

SpecVariant == InitVariant /\ [][NextVariant]_vars

\* number of tags of a tag list that carry this name and this value
NumTags(tags, name, value) ==
    Cardinality({i \in 1..Len(tags) : tags[i].Name = name /\ tags[i].Value = value})

TagValues(tags) == {tags[i].Value : i \in 1..Len(tags)}

\* the tags of one name form the same multiset of values in both tag lists
SameMultiset(tags1, tags2, name) ==
    \A v \in TagValues(tags1) \cup TagValues(tags2) :
        NumTags(tags1, name, v) = NumTags(tags2, name, v)

FlowsDiffer(flow1, flow2) ==
    \/ Len(flow1) # Len(flow2)
    \/ \E i \in 1..Len(flow1) : flow1[i] # flow2[i]

\* C1: IsABTestingVariant is symmetric: for every pair of configs (any tags,
\* repeated tag names included, any UIFlow, any Weight), swapping the two
\* configs never changes the verdict.
C1_Symmetric ==
    out.op = "IsABTestingVariant" => out.result = IsABTestingVariant(config, sourceConfig)

\* a pair with different tag lists and a repeated tag name that is a variant
C1_Witness ==
    /\ out.op = "IsABTestingVariant"
    /\ out.result
    /\ sourceConfig.Tags # config.Tags
    /\ Len(ValuesOf(sourceConfig.Tags, "lead_source")) = 2

\* C2: whenever IsABTestingVariant(a, b) is true, a and b have the same Name,
\* their product_code, lead_source and telco_code values are equal as multisets
\* (with multiplicity, whatever the order), their UIFlows differ in length or
\* at some position, and both Weights are strictly positive.
C2_VariantConditions ==
    (out.op = "IsABTestingVariant" /\ out.result) =>
        /\ sourceConfig.Name = config.Name
        /\ \A n \in {"product_code", "lead_source", "telco_code"} :
              SameMultiset(sourceConfig.Tags, config.Tags, n)
        /\ FlowsDiffer(sourceConfig.UIFlow, config.UIFlow)
        /\ sourceConfig.Weight > 0
        /\ config.Weight > 0

\* a variant pair whose two lead_source values come in a different order
C2_Witness ==
    /\ out.op = "IsABTestingVariant"
    /\ out.result
    /\ ValuesOf(sourceConfig.Tags, "lead_source") = <<"organic", "paid">>
    /\ ValuesOf(config.Tags, "lead_source") = <<"paid", "organic">>

\* C3: whenever IsABTestingVariant(a, b) is true, the Flow Classifier returns
\* the same flow type for a.Tags and b.Tags, also when esign_flow_type or
\* flow_type is repeated or comes in a different order in a and b.
C3_SameFlowType ==
    (out.op = "IsABTestingVariant" /\ out.result) =>
        GetFlowTypeFromTags(sourceConfig.Tags) = GetFlowTypeFromTags(config.Tags)

(***************************************************************************)
(* Flow classification and transition labelling on a pair of configs.      *)
(***************************************************************************)
ClassifyTagPool ==
    {Tag("product_code", "P1"), Tag("flow_type", "auto_pcb"), Tag("flow_type", "semi"),
     Tag("esign_flow_type", "auto_pcb"), Tag("esign_flow_type", "rejection")}

ClassifyTagLists == SeqsUpTo(ClassifyTagPool, MaxTags)

MatchReasons ==
    {"same product_code", "same product_code, different flow_type: auto_pcb"}

InitClassify ==
    /\ \E t1 \in ClassifyTagLists, t2 \in ClassifyTagLists :
          /\ sourceConfig = LenderConfig(9054, "v1.0.collect.organic", t1, "v9.1.5.0",
                                         <<"otp", "ekyc.selfie.active">>, 1)
          /\ config = LenderConfig(9095, "v1.0.auto_pcb", t2, "v9.2.0.0",
                                   <<"otp", "esign.review">>, 1)
    /\ sourceTags = NoTags
    /\ files = <<>>
    /\ lenderConfigID = 0
    /\ leadSource = ""
    /\ out = NoCall

CallGetFlowTypeFromTags ==
    /\ out.op = "none"
    /\ out' = [op |-> "GetFlowTypeFromTags", result |-> GetFlowTypeFromTags(config.Tags)]
    /\ UNCHANGED <<sourceConfig, config, sourceTags, files, lenderConfigID, leadSource>>

CallDetermineFlowType ==
    /\ out.op = "none"
    /\ \E matchReason \in MatchReasons :
          out' = [op |-> "DetermineFlowType", matchReason |-> matchReason,
                  result |-> DetermineFlowType(sourceConfig, config, matchReason)]
    /\ UNCHANGED <<sourceConfig, config, sourceTags, files, lenderConfigID, leadSource>>

NextClassify ==
    \/ CallGetFlowTypeFromTags
    \/ CallDetermineFlowType

SpecClassify == InitClassify /\ [][NextClassify]_vars

\* positions of the tags of one name
TagPositions(tags, name) == {i \in 1..Len(tags) : tags[i].Name = name}

Min(S) == CHOOSE x \in S : \A y \in S : x <= y

\* C9: GetFlowTypeFromTags returns the value of the first esign_flow_type tag
\* if any tag has that name, otherwise the value of the first flow_type tag,
\* otherwise "unknown"; a flow_type tag never wins over an esign_flow_type tag,
\* whatever the tag order.
C9_ClassifierPriority ==
    out.op = "GetFlowTypeFromTags" =>
        LET esign == TagPositions(config.Tags, "esign_flow_type")
            generic == TagPositions(config.Tags, "flow_type")
        IN  out.result = IF esign # {} THEN config.Tags[Min(esign)].Value
                         ELSE IF generic # {} THEN config.Tags[Min(generic)].Value
                         ELSE "unknown"

\* a flow_type tag that precedes an esign_flow_type tag of another value loses
C9_Witness ==
    /\ out.op = "GetFlowTypeFromTags"
    /\ config.Tags = <<Tag("flow_type", "semi"), Tag("esign_flow_type", "rejection")>>
    /\ out.result = "rejection"

\* C10: the transition label of DetermineFlowType is exactly "normal" when the
\* classified flow types of source and target are equal, and otherwise
\* sourceFlowType + "_to_" + targetFlowType; the match reason has no influence.
C10_TransitionLabel ==
    out.op = "DetermineFlowType" =>
        LET s == GetFlowTypeFromTags(sourceConfig.Tags)
            t == GetFlowTypeFromTags(config.Tags)
        IN  /\ s = t => out.result = "normal"
            /\ s # t =>
                  /\ Len(out.result) = Len(s) + 4 + Len(t)
                  /\ SubSeq(out.result, 1, Len(s)) = s
                  /\ SubSeq(out.result, Len(s) + 1, Len(s) + 4) = "_to_"
                  /\ SubSeq(out.result, Len(s) + 5, Len(out.result)) = t
            /\ \A r \in MatchReasons :
                  DetermineFlowType(sourceConfig, config, r) = out.result

\* a source without flow tags and an auto_pcb target, whatever the reason says
C10_Witness ==
    /\ out.op = "DetermineFlowType"
    /\ out.matchReason = "same product_code"
    /\ sourceConfig.Tags = <<Tag("product_code", "P1")>>
    /\ config.Tags = <<Tag("product_code", "P1"), Tag("flow_type", "auto_pcb")>>
    /\ out.result = "unknown_to_auto_pcb"

(***************************************************************************)
(* The Tag Matcher on a source context and a candidate.                    *)
(***************************************************************************)
RECURSIVE SubSequences(_)
SubSequences(s) ==
    IF s = <<>> THEN {<<>>}
    ELSE LET rest == SubSequences(Tail(s))
         IN  rest \cup {<<Head(s)>> \o x : x \in rest}

\* the source's tags: any selection of one tag per critical name
MatchSourceTagLists ==
    SubSequences(<<Tag("product_code", "P1"), Tag("lead_source", "organic"),
                   Tag("telco_code", "T1"), Tag("flow_type", "auto_pcb"),
                   Tag("esign_flow_type", "semi")>>)

LeadSources == {"", "paid"}

\* the candidate's tags: two values of every gating name, both flow tag names
\* and a flow tag without value
MatchTagPool ==
    {Tag("product_code", "P1"), Tag("product_code", "P2"),
     Tag("lead_source", "organic"), Tag("lead_source", "paid"),
     Tag("telco_code", "T1"), Tag("telco_code", "T2"),
     Tag("flow_type", "auto_pcb"), Tag("esign_flow_type", "semi"), Tag("flow_type", "")}

MatchTagLists == SeqsUpTo(MatchTagPool, MaxTags)

InitMatch ==
    /\ \E t \in MatchSourceTagLists :
          sourceConfig = LenderConfig(9054, "v1.0.collect.organic", t, "v9.1.5.0",
                                      <<"otp", "ekyc.selfie.active">>, 1)
    /\ \E n \in Names, t \in MatchTagLists :
          config = LenderConfig(9095, n, t, "v9.2.0.0", <<"otp", "esign.review">>, 1)
    /\ leadSource \in LeadSources
    /\ sourceTags = NoTags
    /\ files = <<>>
    /\ lenderConfigID = 0
    /\ out = NoCall

\* one pass of SearchRelatedConfigDetailed's loop body for a candidate that is
\* no A/B variant: the source context, then the matcher
CallIsCompatible ==
    /\ out.op = "none"
    /\ sourceTags' = SourceTags(sourceConfig.Tags, leadSource)
    /\ out' = [op |-> "IsCompatible"] @@
              IsCompatibleByTagsDetailedWithLeadSourceAndName(
                  config, SourceTags(sourceConfig.Tags, leadSource), sourceConfig.Name)
    /\ UNCHANGED <<sourceConfig, config, files, lenderConfigID, leadSource>>

NextMatch == CallIsCompatible

SpecMatch == InitMatch /\ [][NextMatch]_vars

\* what the claims say about the matcher's inputs, read off the tag lists
Max(S) == CHOOSE x \in S : \A y \in S : x >= y

LastTagValue(tags, name) ==
    IF TagPositions(tags, name) = {} THEN ""
    ELSE tags[Max(TagPositions(tags, name))].Value

ClassifiedFlow(tags) ==
    IF TagPositions(tags, "esign_flow_type") # {}
    THEN tags[Min(TagPositions(tags, "esign_flow_type"))].Value
    ELSE IF TagPositions(tags, "flow_type") # {}
    THEN tags[Min(TagPositions(tags, "flow_type"))].Value
    ELSE "unknown"

CtxProductCode == LastTagValue(sourceConfig.Tags, "product_code")

CtxLeadSource ==
    IF leadSource # "" THEN leadSource ELSE LastTagValue(sourceConfig.Tags, "lead_source")

CtxTelcoCode == LastTagValue(sourceConfig.Tags, "telco_code")

CtxFlowType ==
    IF LastTagValue(sourceConfig.Tags, "esign_flow_type") # ""
    THEN LastTagValue(sourceConfig.Tags, "esign_flow_type")
    ELSE LastTagValue(sourceConfig.Tags, "flow_type")

ProductCodeGate ==
    CtxProductCode # "" => LastTagValue(config.Tags, "product_code") = CtxProductCode

LeadSourceGate ==
    CtxLeadSource # "" =>
        \E i \in 1..Len(config.Tags) : config.Tags[i] = Tag("lead_source", CtxLeadSource)

TelcoShared ==
    /\ CtxTelcoCode # ""
    /\ \E i \in 1..Len(config.Tags) : config.Tags[i] = Tag("telco_code", CtxTelcoCode)

FlowTypesKnown == CtxFlowType # "" /\ ClassifiedFlow(config.Tags) # ""

PastGates ==
    /\ out.op = "IsCompatible"
    /\ config.Name # sourceConfig.Name
    /\ ProductCodeGate
    /\ LeadSourceGate

HasFlowTypeEntry(matchedTags) ==
    \E i \in 1..Len(matchedTags) : matchedTags[i].Name = "flow_type"

IsTelcoTag(tag) == tag.Name = "telco_code"
NotTelcoTag(tag) == tag.Name # "telco_code"

\* the candidate with its telco_code tags removed
StripTelco(cfg) == [cfg EXCEPT !.Tags = SelectSeq(cfg.Tags, NotTelcoTag)]

\* C5: the Tag Matcher returns true only if both mandatory gates pass: when the
\* source context has a non-empty product_code the candidate's product_code is
\* identical, and when it has a non-empty lead_source (own value or caller
\* override) at least one of the candidate's lead_source tags equals it.
C5_MandatoryGates ==
    (out.op = "IsCompatible" /\ out.ok) => (ProductCodeGate /\ LeadSourceGate)

\* a pass through both gates, the lead source being the caller's override
C5_Witness ==
    /\ out.op = "IsCompatible"
    /\ out.ok
    /\ CtxProductCode = "P1"
    /\ leadSource = "paid"
    /\ LastTagValue(sourceConfig.Tags, "lead_source") = "organic"
    /\ config.Tags = <<Tag("product_code", "P1"), Tag("lead_source", "paid")>>

\* C6 as claimed: for a candidate whose Name differs from the source's, the Tag
\* Matcher passes exactly when the mandatory product_code and lead_source
\* checks succeeded, a check on a tag the source does not specify counting as
\* succeeded.
C6_PassIffGates ==
    (out.op = "IsCompatible" /\ config.Name # sourceConfig.Name) =>
        (out.ok <=> (ProductCodeGate /\ LeadSourceGate))

\* C6 as amended: for a candidate whose Name differs from the source's, the Tag
\* Matcher passes iff the mandatory checks succeeded and at least one signal
\* was recorded.  When the source context specifies a product_code or a
\* lead_source the mandatory checks alone suffice; when it specifies neither,
\* a pass needs a shared telco_code or a flow-type signal.
C6_PassIffGatesAndSignal ==
    (out.op = "IsCompatible" /\ config.Name # sourceConfig.Name) =>
        /\ out.ok <=> Len(out.matchedTags) >= 1
        /\ out.ok <=> /\ ProductCodeGate
                       /\ LeadSourceGate
                       /\ \/ CtxProductCode # ""
                          \/ CtxLeadSource # ""
                          \/ TelcoShared
                          \/ FlowTypesKnown

\* a pass on the product_code alone, without any other signal
C6_Witness ==
    /\ out.op = "IsCompatible"
    /\ config.Name # sourceConfig.Name
    /\ out.ok
    /\ out.matchReason = "same product_code"
    /\ out.matchedTags = <<Tag("product_code", "P1")>>

\* C7 as claimed: telco_code never gates the Tag Matcher: changing only the
\* candidate's telco_code tags never changes the pass/fail result, so every
\* candidate gets the result of the candidate without its telco_code tags.
C7_TelcoNeverGates ==
    out.op = "IsCompatible" =>
        out.ok = IsCompatibleByTagsDetailedWithLeadSourceAndName(
                     StripTelco(config), sourceTags, sourceConfig.Name).ok

\* C7 as amended: the candidate's telco_code tags never close a gate: they never
\* turn a pass into a fail, they leave the other signals as they are, and they
\* change no result whenever another signal exists (the source context
\* specifies a product_code or a lead_source, or both flow types are known).
\* Only when the shared telco_code is the sole signal does it decide the pass.
C7_TelcoOnlySignal ==
    out.op = "IsCompatible" =>
        LET base == IsCompatibleByTagsDetailedWithLeadSourceAndName(
                        StripTelco(config), sourceTags, sourceConfig.Name)
        IN  /\ base.ok => out.ok
            /\ (CtxProductCode # "" \/ CtxLeadSource # "" \/ FlowTypesKnown) =>
                  out.ok = base.ok
            /\ out.ok # base.ok => out.matchReason = "shared telco_code: " \o CtxTelcoCode
            /\ (out.ok /\ base.ok) =>
                  SelectSeq(out.matchedTags, NotTelcoTag) = base.matchedTags

\* a candidate of another telco_code than the source's that passes all the same
C7_Witness ==
    /\ out.op = "IsCompatible"
    /\ out.ok
    /\ CtxTelcoCode = "T1"
    /\ config.Tags = <<Tag("product_code", "P1"), Tag("telco_code", "T2")>>

\* C8 as claimed: for every candidate evaluated past the mandatory gates,
\* matchedTags contains a flow_type entry and the reason contains "same
\* flow_type" or "different flow_type: <candidate flow type>", whatever flow
\* tags the source and the candidate carry.
C8_FlowTypeAlwaysRecorded ==
    PastGates =>
        /\ HasFlowTypeEntry(out.matchedTags)
        /\ \/ Contains(out.matchReason, "same flow_type")
           \/ Contains(out.matchReason,
                       "different flow_type: " \o ClassifiedFlow(config.Tags))

\* C8 as amended: for every candidate evaluated past the mandatory gates, the
\* flow-type relationship is recorded exactly when the source context has a
\* non-empty flow type and the candidate's classified flow type is non-empty
\* (a candidate without flow tags classifies as "unknown"): then matchedTags
\* has a flow_type entry of the candidate's flow type and the reason contains
\* "same flow_type" if the two are equal, else "different flow_type: <candidate
\* flow type>"; otherwise no flow-type signal is recorded.
C8_FlowTypeRecordedWhenKnown ==
    PastGates =>
        /\ FlowTypesKnown <=> HasFlowTypeEntry(out.matchedTags)
        /\ FlowTypesKnown =>
              /\ Tag("flow_type", ClassifiedFlow(config.Tags)) \in Range(out.matchedTags)
              /\ IF ClassifiedFlow(config.Tags) = CtxFlowType
                 THEN Contains(out.matchReason, "same flow_type")
                 ELSE Contains(out.matchReason,
                               "different flow_type: " \o ClassifiedFlow(config.Tags))
        /\ ~FlowTypesKnown =>
              /\ ~Contains(out.matchReason, "same flow_type")
              /\ ~Contains(out.matchReason, "different flow_type")

\* a source with a flow type and a candidate without flow tags: "unknown" is
\* recorded as a different flow type
C8_Witness ==
    /\ PastGates
    /\ CtxFlowType = "auto_pcb"
    /\ TagPositions(config.Tags, "flow_type") = {}
    /\ TagPositions(config.Tags, "esign_flow_type") = {}
    /\ Contains(out.matchReason, "different flow_type: unknown")

(***************************************************************************)
(* The Relation Resolver on a corpus.                                      *)
(***************************************************************************)
FlowActive == <<"otp", "ekyc.selfie.active">>
FlowFlash == <<"otp", "ekyc.selfie.flash">>
SourceTagList == <<Tag("lead_source", "organic"), Tag("product_code", "P1")>>

\* the documents a corpus is drawn from: the source 9054, its A/B variant 9101,
\* a config of the source's name and flow that is no variant (9102), two
\* configs of other names (9095, 9097) and a second document of ID 9054
Documents ==
    {File("9054.json", LenderConfig(9054, "v1.0.collect.organic", SourceTagList,
                                    "v9.1.5.0", FlowActive, 1)),
     File("9101.json", LenderConfig(9101, "v1.0.collect.organic", SourceTagList,
                                    "v9.1.5.0", FlowFlash, 1)),
     File("9102.json", LenderConfig(9102, "v1.0.collect.organic", SourceTagList,
                                    "v9.1.5.0", FlowActive, 1)),
     File("9095.json", LenderConfig(9095, "v1.0.auto_pcb",
                                    <<Tag("product_code", "P1"),
                                      Tag("flow_type", "auto_pcb")>>,
                                    "v9.2.0.0", <<"otp", "esign.review">>, 1)),
     File("9097.json", LenderConfig(9097, "v1.0.semi",
                                    <<Tag("product_code", "P1"),
                                      Tag("lead_source", "organic"),
                                      Tag("esign_flow_type", "semi")>>,
                                    "v9.2.0.0", <<"otp", "esign.review">>, 1)),
     File("9054_old.json", LenderConfig(9054, "v0.9.collect", SourceTagList,
                                        "v9.0.0.0", FlowActive, 0))}

QueryIDs == {9054, 9097}
QueryLeadSources == {"", "organic"}

InitResolver ==
    /\ files \in SeqsUpTo(Documents, MaxCorpus)
    /\ lenderConfigID \in QueryIDs
    /\ leadSource \in QueryLeadSources
    /\ sourceConfig = NoConfig
    /\ config = NoConfig
    /\ sourceTags = NoTags
    /\ out = NoCall

\* SearchRelatedConfigDetailed when SearchLenderConfigID finds no file
SearchSourceNotFound ==
    /\ out.op = "none"
    /\ ListFilesContainingKeyword(files, lenderConfigID) = <<>>
    /\ out' = [op |-> "SearchRelatedConfigDetailed", found |-> FALSE, results |-> <<>>]
    /\ UNCHANGED <<sourceConfig, config, sourceTags, files, lenderConfigID, leadSource>>

\* SearchRelatedConfigDetailed on the first file SearchLenderConfigID finds
SearchRelated ==
    /\ out.op = "none"
    /\ ListFilesContainingKeyword(files, lenderConfigID) # <<>>
    /\ sourceConfig' = ListFilesContainingKeyword(files, lenderConfigID)[1].config
    /\ sourceTags' = SourceTags(sourceConfig'.Tags, leadSource)
    /\ out' = [op |-> "SearchRelatedConfigDetailed", found |-> TRUE,
               results |-> SearchRelatedConfigDetailed(files, sourceConfig',
                                                       lenderConfigID, leadSource)]
    /\ UNCHANGED <<config, files, lenderConfigID, leadSource>>

NextResolver ==
    \/ SearchSourceNotFound
    \/ SearchRelated

SpecResolver == InitResolver /\ [][NextResolver]_vars

\* C4: the matcher returns false whenever candidate.Name = source.Name, so every
\* routing relation (a result with IsABTesting = false) the Relation Resolver
\* returns has a ConfigID different from the source ID and a Name different
\* from the source Name, for every corpus.
C4_RoutingExcludesSourceName ==
    out.op = "SearchRelatedConfigDetailed" =>
        /\ \A i \in 1..Len(files) :
              files[i].config.Name = sourceConfig.Name =>
                  ~IsCompatibleByTagsDetailedWithLeadSourceAndName(
                       files[i].config, sourceTags, sourceConfig.Name).ok
        /\ \A i \in 1..Len(out.results) :
              ~out.results[i].IsABTesting =>
                  /\ out.results[i].ConfigID # lenderConfigID
                  /\ out.results[i].Name # sourceConfig.Name

\* a corpus with the source, a config of the source's name that is no variant
\* and a config of another name: only the last one is a routing relation
C4_Witness ==
    /\ out.op = "SearchRelatedConfigDetailed"
    /\ lenderConfigID = 9054
    /\ \E i \in 1..Len(files) : files[i].config.ID = 9102
    /\ Len(out.results) = 1
    /\ out.results[1].ConfigID = 9097
    /\ ~out.results[1].IsABTesting

(***************************************************************************)
(* Step generation on a pair of configs and a transition label.            *)
(***************************************************************************)
StepPool ==
    {"otp", "app_form.basic_info", "app_form.personal_info", "esign.review",
     "inform.success"}

StepFlows == SeqsUpTo(StepPool, MaxFlow)

\* labels DetermineFlowType produces from flow tag values: plain ones and
\* composite ones that contain two of the tested substrings
TransitionLabels ==
    {"normal", "unknown_to_auto_pcb", "unknown_to_semi", "semi_to_auto_pcb",
     "unknown_to_rejection", "auto_pcb_to_rejection", "semi_to_rejection",
     "rejection_to_cif", "auto_pcb_to_cif", "semi_to_diff_info", "unknown_to_cif",
     "unknown_to_cif_no_branch", "unknown_to_manual"}

StepSource(uiFlow) ==
    LenderConfig(9054, "v1.0.collect.organic", SourceTagList, "v9.1.5.0", uiFlow, 1)

StepTarget(uiFlow) ==
    LenderConfig(9095, "v1.0.auto_pcb",
                 <<Tag("product_code", "P1"), Tag("flow_type", "auto_pcb")>>,
                 "v9.2.0.0", uiFlow, 1)

\* a source of every flow with itself and with a target of a fixed flow, and a
\* source of a fixed flow with a target of every flow
StepConfigPairs ==
    {<<StepSource(f), StepSource(f)>> : f \in StepFlows}
    \cup {<<StepSource(f), StepTarget(<<"otp", "esign.review">>)>> : f \in StepFlows}
    \cup {<<StepSource(<<"otp", "app_form.basic_info">>), StepTarget(f)>> : f \in StepFlows}

InitSteps ==
    /\ \E p \in StepConfigPairs :
          /\ sourceConfig = p[1]
          /\ config = p[2]
    /\ sourceTags = NoTags
    /\ files = <<>>
    /\ lenderConfigID = 0
    /\ leadSource = ""
    /\ out = NoCall

\* GenerateJourneyTemplate's call of GenerateFullJourneySteps
CallGenerateFullJourneySteps ==
    /\ out.op = "none"
    /\ \E flowType \in TransitionLabels :
          out' = [op |-> "GenerateFullJourneySteps", flowType |-> flowType,
                  steps |-> GenerateFullJourneySteps(sourceConfig, config, flowType)]
    /\ UNCHANGED <<sourceConfig, config, sourceTags, files, lenderConfigID, leadSource>>

NextSteps == CallGenerateFullJourneySteps

SpecSteps == InitSteps /\ [][NextSteps]_vars

StepNames(steps) == [i \in 1..Len(steps) |-> steps[i].Name]

\* a journey between two different configs was generated
FullJourney == out.op = "GenerateFullJourneySteps" /\ sourceConfig.ID # config.ID

IsRejectionLabel == Contains(out.flowType, "rejection")
IsAutoSemiLabel == Contains(out.flowType, "auto") \/ Contains(out.flowType, "semi")
IsCifDiffLabel == Contains(out.flowType, "cif") \/ Contains(out.flowType, "diff")

\* C12: between two different configs, a label containing "rejection" yields
\* between 2 and 4 steps whose last two are "ekyc.selfie.flash" and "failure",
\* in that order, both on the target's UI version, for every source UIFlow,
\* the empty one included.
C12_RejectionShape ==
    (FullJourney /\ IsRejectionLabel) =>
        LET n == Len(out.steps)
        IN  /\ n \in 2..4
            /\ out.steps[n - 1].Name = "ekyc.selfie.flash"
            /\ out.steps[n].Name = "failure"
            /\ out.steps[n - 1].MainUIVersion = config.UIVersion
            /\ out.steps[n].MainUIVersion = config.UIVersion

\* a rejection journey from a source with an empty flow: the two terminal steps
C12_Witness ==
    /\ FullJourney
    /\ out.flowType = "unknown_to_rejection"
    /\ sourceConfig.UIFlow = <<>>
    /\ StepNames(out.steps) = <<"ekyc.selfie.flash", "failure">>
    /\ out.steps[2].MainUIVersion = "v9.2.0.0"

\* C13: in a rejection journey the common step "otp" is included only if
\* source.UIFlow[0] is "otp", and the common step "app_form.basic_info" only
\* if source.UIFlow[1] is "app_form.basic_info".
C13_CommonStepsAtOwnPosition ==
    (FullJourney /\ IsRejectionLabel) =>
        /\ (\E i \in 1..Len(out.steps) : out.steps[i].Name = "otp") =>
               (Len(sourceConfig.UIFlow) >= 1 /\ sourceConfig.UIFlow[1] = "otp")
        /\ (\E i \in 1..Len(out.steps) : out.steps[i].Name = "app_form.basic_info") =>
               (Len(sourceConfig.UIFlow) >= 2
                /\ sourceConfig.UIFlow[2] = "app_form.basic_info")

\* C14 as stated: between two different configs, every label containing "auto"
\* or "semi" yields exactly 20 steps.
C14_AutoSemiTwentySteps ==
    (FullJourney /\ IsAutoSemiLabel) => Len(out.steps) = 20

\* C14: between two different configs, every label that contains "auto" or
\* "semi" and does not contain "rejection" yields exactly 20 steps: the ten
\* steps of the initial table followed by the ten of the automated table.
C14_AutoSemiNotRejectionTwentySteps ==
    (FullJourney /\ IsAutoSemiLabel /\ ~IsRejectionLabel) =>
        /\ Len(out.steps) = 20
        /\ StepNames(out.steps) = initialSteps \o automatedSteps

\* a semi label that also contains "diff" gets the 20 steps
C14_Witness ==
    /\ FullJourney
    /\ out.flowType = "semi_to_diff_info"
    /\ Len(out.steps) = 20
    /\ out.steps[20].Name = "appraising.nfc_verify"

\* C15: between two different configs the shape is picked by first match in
\* the order rejection > auto/semi > cif/diff > fallback: a label containing
\* "rejection" gets the rejection shape whatever else it contains, a label
\* containing "auto" or "semi" and not "rejection" gets the 20-step shape even
\* if it contains "cif" or "diff", a label with "cif" or "diff" and none of the
\* former gets the cif shape, and only a label with none of these substrings
\* copies target.UIFlow.
C15_ShapePriority ==
    FullJourney =>
        LET names == StepNames(out.steps)
            n == Len(out.steps)
        IN  /\ IsRejectionLabel =>
                  /\ n \in 2..4
                  /\ SubSeq(names, n - 1, n) = <<"ekyc.selfie.flash", "failure">>
            /\ (~IsRejectionLabel /\ IsAutoSemiLabel) =>
                  names = initialSteps \o automatedSteps
            /\ (~IsRejectionLabel /\ ~IsAutoSemiLabel /\ IsCifDiffLabel) =>
                  names = IF Contains(out.flowType, "no_branch")
                          THEN <<"cif.confirm">>
                          ELSE <<"cif.confirm", "appraising.cif">>
            /\ (~IsRejectionLabel /\ ~IsAutoSemiLabel /\ ~IsCifDiffLabel) =>
                  out.steps = GenerateStandardJourneySteps(config.UIFlow, config.UIVersion)
            /\ (IsRejectionLabel \/ IsAutoSemiLabel \/ IsCifDiffLabel) =>
                  \E i \in 1..n : out.steps[i].Name \notin Range(config.UIFlow)

\* a label containing both "auto" and "rejection" gets the rejection shape
C15_Witness ==
    /\ FullJourney
    /\ out.flowType = "auto_pcb_to_rejection"
    /\ sourceConfig.UIFlow = <<"otp", "app_form.basic_info">>
    /\ StepNames(out.steps) =
           <<"otp", "app_form.basic_info", "ekyc.selfie.flash", "failure">>

\* C16: in every synthesized journey that contains an "esign.review" step,
\* that step's SubUIVersion is "v1.0-semi-nfc" iff "semi" is a substring of
\* the transition label, and "v1.0-auto-nfc" otherwise.
C16_EsignReviewOverride ==
    out.op = "GenerateFullJourneySteps" =>
        \A i \in 1..Len(out.steps) :
            out.steps[i].Name = "esign.review" =>
                out.steps[i].SubUIVersion =
                    IF Contains(out.flowType, "semi") THEN "v1.0-semi-nfc"
                    ELSE "v1.0-auto-nfc"

\* C17: in every journey of every shape, every step named "inform.success" has
\* an empty static SubUIVersion and exactly one conditional rule, of condition
\* "communication_call=success, lead_source=organic" and of version "v1.1-semi"
\* if the label contains "semi", else "v1.1-auto".
C17_InformSuccessRule ==
    out.op = "GenerateFullJourneySteps" =>
        \A i \in 1..Len(out.steps) :
            out.steps[i].Name = "inform.success" =>
                /\ out.steps[i].SubUIVersion = ""
                /\ out.steps[i].SubUIVersionByConditions =
                       <<SubUIVersionByCondition(
                             "communication_call=success, lead_source=organic",
                             IF Contains(out.flowType, "semi") THEN "v1.1-semi"
                             ELSE "v1.1-auto")>>

\* C18: in the 20-step auto/semi journey app_form.contact_info,
\* appraising.fifth_approval and esign.intro have SubUIVersion "v1.0-c1",
\* esign.review has its nfc override, and every other step of the 20, of the
\* initial and of the automated table, has an empty SubUIVersion.
C18_StaticOverrideTable ==
    (FullJourney /\ IsAutoSemiLabel /\ ~IsRejectionLabel) =>
        \A i \in 1..Len(out.steps) :
            out.steps[i].SubUIVersion =
                IF out.steps[i].Name \in {"app_form.contact_info",
                                          "appraising.fifth_approval", "esign.intro"}
                THEN "v1.0-c1"
                ELSE IF out.steps[i].Name = "esign.review"
                THEN (IF Contains(out.flowType, "semi") THEN "v1.0-semi-nfc"
                      ELSE "v1.0-auto-nfc")
                ELSE ""

\* C19: every step of every synthesized journey carries one UI-version
\* resolution mode: it never has both a non-empty SubUIVersion and a non-empty
\* list of conditional rules.
C19_OneResolutionMode ==
    out.op = "GenerateFullJourneySteps" =>
        \A i \in 1..Len(out.steps) :
            ~(out.steps[i].SubUIVersion # ""
              /\ out.steps[i].SubUIVersionByConditions # <<>>)

\* a 20-step journey with a step of each mode: baseline, static, conditional
C19_Witness ==
    /\ FullJourney
    /\ out.flowType = "unknown_to_semi"
    /\ Len(out.steps) = 20
    /\ out.steps[1].SubUIVersion = "" /\ out.steps[1].SubUIVersionByConditions = <<>>
    /\ out.steps[12].SubUIVersion = "v1.0-c1"
    /\ out.steps[11].SubUIVersion = ""
    /\ Len(out.steps[11].SubUIVersionByConditions) = 1

(***************************************************************************)
(* Journey analysis of a query on a corpus.                                *)
(***************************************************************************)
\* the documents of the resolver's corpora and a rejection config (9048)
JourneyDocuments ==
    Documents \cup
    {File("9048.json", LenderConfig(9048, "v1.0.rejection",
                                    <<Tag("product_code", "P1"),
                                      Tag("lead_source", "organic"),
                                      Tag("flow_type", "rejection")>>,
                                    "v9.3.0.0", <<"otp", "app_form.personal_info">>, 1))}

JourneyQueryIDs == {9054, 9097, 9048}

InitJourney ==
    /\ files \in SeqsUpTo(JourneyDocuments, MaxCorpus)
    /\ lenderConfigID \in JourneyQueryIDs
    /\ leadSource \in QueryLeadSources
    /\ sourceConfig = NoConfig
    /\ config = NoConfig
    /\ sourceTags = NoTags
    /\ out = NoCall

\* GenerateJourneyAnalysis when SearchLenderConfigID finds no file: the search
\* returns nothing and GenerateJourneyTemplate returns an error
JourneySourceNotFound ==
    /\ out.op = "none"
    /\ SearchLenderConfigID(files, lenderConfigID) = <<>>
    /\ out' = [op |-> "GenerateJourneyAnalysis", err |-> TRUE, results |-> <<>>]
    /\ UNCHANGED <<sourceConfig, config, sourceTags, files, lenderConfigID, leadSource>>

\* GenerateJourneyAnalysis: SearchRelatedConfigDetailed, then
\* GenerateJourneyTemplate on its results
GenerateJourneyAnalysis ==
    /\ out.op = "none"
    /\ SearchLenderConfigID(files, lenderConfigID) # <<>>
    /\ sourceConfig' = SearchLenderConfigID(files, lenderConfigID)[1].config
    /\ sourceTags' = SourceTags(sourceConfig'.Tags, leadSource)
    /\ LET relatedConfigs == SearchRelatedConfigDetailed(files, sourceConfig',
                                                         lenderConfigID, leadSource)
       IN  out' = [op |-> "GenerateJourneyAnalysis", err |-> FALSE,
                   results |-> relatedConfigs,
                   template |-> GenerateJourneyTemplate(files, sourceConfig',
                                                        lenderConfigID, relatedConfigs)]
    /\ UNCHANGED <<config, files, lenderConfigID, leadSource>>

NextJourney ==
    \/ JourneySourceNotFound
    \/ GenerateJourneyAnalysis

SpecJourney == InitJourney /\ [][NextJourney]_vars

\* a template was generated
HasTemplate == out.op = "GenerateJourneyAnalysis" /\ ~out.err

\* the journeys of the template that lead from a config to itself
SelfLoops ==
    {i \in 1..Len(out.template.Journeys) :
        out.template.Journeys[i].FromLenderConfigID =
            out.template.Journeys[i].ToLenderConfigID}

\* C11: the self-loop journey (source.ID = target.ID, whatever the label) has
\* exactly len(source.UIFlow) steps, step i named source.UIFlow[i], every step
\* on source.UIVersion with an empty SubUIVersion and no conditional rules; and
\* every journey template contains exactly one such journey, labeled "normal".
C11_SelfLoopJourney ==
    HasTemplate =>
        LET std == [i \in 1..Len(sourceConfig.UIFlow) |->
                       Step(i - 1, sourceConfig.UIFlow[i], sourceConfig.UIVersion,
                            "", <<>>)]
        IN  /\ SelfLoops = {1}
            /\ out.template.Journeys[1].FlowType = "normal"
            /\ out.template.Journeys[1].FromLenderConfigID = lenderConfigID
            /\ out.template.Journeys[1].Steps = std
            /\ \A flowType \in TransitionLabels :
                   GenerateFullJourneySteps(sourceConfig, sourceConfig, flowType) = std

\* the template of source 9048, whose flow has a step the 20-step table
\* overrides, next to a related config: one self-loop of two baseline steps
C11_Witness ==
    /\ HasTemplate
    /\ lenderConfigID = 9048
    /\ Len(out.template.Journeys) = 2
    /\ out.template.Journeys[1].ID = "from_9048_to_9048"
    /\ StepNames(out.template.Journeys[1].Steps) = <<"otp", "app_form.personal_info">>
    /\ out.template.Journeys[1].Steps[2].SubUIVersion = ""
    /\ out.template.Journeys[2].ToLenderConfigID = 9097

\* C20: with source 9054 (name "v1.0.collect.organic", ui_version "v9.1.5.0",
\* tags lead_source=organic and product_code=P1, weight 1), the candidate 9095
\* of another name with tags product_code=P1 and flow_type=auto_pcb is reported
\* related with a reason containing "same product_code" and "different
\* flow_type: auto_pcb", the transition label is "normal_to_auto_pcb", the
\* journey has 20 steps and its esign.review step has SubUIVersion
\* "v1.0-auto-nfc".
C20_EndToEnd ==
    (/\ HasTemplate
     /\ lenderConfigID = 9054
     /\ sourceConfig = LenderConfig(9054, "v1.0.collect.organic", SourceTagList,
                                    "v9.1.5.0", FlowActive, 1)
     /\ \E i \in 1..Len(files) : files[i].config.ID = 9095) =>
        /\ \E i \in 1..Len(out.results) :
              /\ out.results[i].ConfigID = 9095
              /\ Contains(out.results[i].MatchReason, "same product_code")
              /\ Contains(out.results[i].MatchReason, "different flow_type: auto_pcb")
        /\ \E j \in 1..Len(out.template.Journeys) :
              /\ out.template.Journeys[j].ToLenderConfigID = 9095
              /\ out.template.Journeys[j].FlowType = "normal_to_auto_pcb"
              /\ Len(out.template.Journeys[j].Steps) = 20
              /\ \E k \in 1..20 :
                    /\ out.template.Journeys[j].Steps[k].Name = "esign.review"
                    /\ out.template.Journeys[j].Steps[k].SubUIVersion = "v1.0-auto-nfc"

(***************************************************************************)
(* A/B testing groups of a corpus.                                         *)
(***************************************************************************)
GroupConfig(id, name, uiFlow, weight) ==
    LenderConfig(id, name, SourceTagList, "v9.1.5.0", uiFlow, weight)

\* configs of one name and one tag list: 9054 and 9101 differ at one index,
\* 9101 and 9103 have the same flow, 9104 has weight 2, 9105 has weight 0; and
\* a config of another name
GroupDocuments ==
    {File("9054.json", GroupConfig(9054, "v1.0.collect.organic", FlowActive, 1)),
     File("9101.json", GroupConfig(9101, "v1.0.collect.organic", FlowFlash, 1)),
     File("9103.json", GroupConfig(9103, "v1.0.collect.organic", FlowFlash, 1)),
     File("9104.json", GroupConfig(9104, "v1.0.collect.organic", <<"otp">>, 2)),
     File("9105.json", GroupConfig(9105, "v1.0.collect.organic", <<>>, 0)),
     File("9097.json", GroupConfig(9097, "v1.0.semi", <<"otp", "esign.review">>, 1))}

InitGroups ==
    /\ files \in SeqsUpTo(GroupDocuments, MaxCorpus)
    /\ lenderConfigID = 0
    /\ leadSource = ""
    /\ sourceConfig = NoConfig
    /\ config = NoConfig
    /\ sourceTags = NoTags
    /\ out = NoCall

\* FindAllABTestingGroups(folderPath)
CallFindAllABTestingGroups ==
    /\ out.op = "none"
    /\ out' = [op |-> "FindAllABTestingGroups",
               groups |-> FindAllABTestingGroups(GetAllLenderConfigsFromPath(files))]
    /\ UNCHANGED <<sourceConfig, config, sourceTags, files, lenderConfigID, leadSource>>

NextGroups == CallFindAllABTestingGroups

SpecGroups == InitGroups /\ [][NextGroups]_vars

\* the IDs of the documents of the corpus, in traversal order
FileIDs == [i \in 1..Len(files) |-> files[i].config.ID]

\* C21: every group of FindAllABTestingGroups has at least two members, all
\* of Weight > 0, and its TotalWeight is the sum of its members' Weights, so
\* TotalWeight > 0 and the shares Weight/TotalWeight sum to 1; the corpus of
\* 9054 and 9101, of weight 1 each and differing at one UIFlow index, gives one
\* group in which each member has half of the total.
C21_GroupWeights ==
    out.op = "FindAllABTestingGroups" =>
        /\ \A g \in 1..Len(out.groups) :
              /\ Len(out.groups[g].Variants) >= 2
              /\ \A m \in 1..Len(out.groups[g].Variants) :
                    out.groups[g].Variants[m].Weight > 0
              /\ out.groups[g].TotalWeight = SumWeights(out.groups[g].Variants)
              /\ out.groups[g].TotalWeight > 0
        /\ FileIDs = <<9054, 9101>> =>
              /\ Len(out.groups) = 1
              /\ [m \in 1..Len(out.groups[1].Variants) |->
                     out.groups[1].Variants[m].ConfigID] = <<9054, 9101>>
              /\ \A m \in 1..2 :
                    2 * out.groups[1].Variants[m].Weight = out.groups[1].TotalWeight

\* the corpus of 9054 and 9101: one group of total weight 2, 50% each
C21_Witness ==
    /\ out.op = "FindAllABTestingGroups"
    /\ FileIDs = <<9054, 9101>>
    /\ Len(out.groups) = 1
    /\ out.groups[1].TotalWeight = 2
    /\ out.groups[1].Variants[1].Weight = 1
    /\ out.groups[1].Variants[2].Weight = 1
    /\ out.groups[1].Variants[2].Differences =
           <<"Step 2: ekyc.selfie.active vs ekyc.selfie.flash">>

\* C28: in the output of FindAllABTestingGroups every config ID is a member of
\* at most one group, for every corpus and every traversal order.
C28_DisjointGroups ==
    out.op = "FindAllABTestingGroups" =>
        \A g \in 1..Len(out.groups), h \in 1..Len(out.groups) :
            g # h =>
                {out.groups[g].Variants[m].ConfigID :
                     m \in 1..Len(out.groups[g].Variants)}
                \cap {out.groups[h].Variants[m].ConfigID :
                          m \in 1..Len(out.groups[h].Variants)} = {}

(***************************************************************************)
(* UI flow comparison on a pair of configs of one name.                    *)
(***************************************************************************)
\* step tokens of the compared flows, the empty token included
DiffTokens == {"", "otp", "ekyc.selfie.active"}

DiffFlows == SeqsUpTo(DiffTokens, MaxFlow)

InitDiff ==
    /\ \E f1 \in DiffFlows, f2 \in DiffFlows :
          /\ sourceConfig = GroupConfig(9054, "v1.0.collect.organic", f1, 1)
          /\ config = GroupConfig(9101, "v1.0.collect.organic", f2, 1)
    /\ sourceTags = NoTags
    /\ files = <<>>
    /\ lenderConfigID = 0
    /\ leadSource = ""
    /\ out = NoCall

\* DetectABTestingVariants' call of FindUIFlowDifferences
CallFindUIFlowDifferences ==
    /\ out.op = "none"
    /\ out' = [op |-> "FindUIFlowDifferences",
               differences |-> FindUIFlowDifferences(sourceConfig.UIFlow, config.UIFlow)]
    /\ UNCHANGED <<sourceConfig, config, sourceTags, files, lenderConfigID, leadSource>>

\* DetectABTestingVariants of the source on the corpus of the two configs
CallDetectABTestingVariants ==
    /\ out.op = "none"
    /\ out' = [op |-> "DetectABTestingVariants",
               variants |-> DetectABTestingVariants(sourceConfig,
                                                    <<sourceConfig, config>>)]
    /\ UNCHANGED <<sourceConfig, config, sourceTags, files, lenderConfigID, leadSource>>

NextDiff ==
    \/ CallFindUIFlowDifferences
    \/ CallDetectABTestingVariants

SpecDiff == InitDiff /\ [][NextDiff]_vars

\* the entries the comparison of flows a and b has from index i (0-based) on
\* when every index is classified by which of the flows has an entry there
RECURSIVE DifferencesByPresence(_, _, _)
DifferencesByPresence(a, b, i) ==
    LET maxLen == IF Len(b) > Len(a) THEN Len(b) ELSE Len(a)
        inA == i < Len(a)
        inB == i < Len(b)
        entry ==
            IF inA /\ inB
            THEN (IF a[i + 1] = b[i + 1] THEN <<>>
                  ELSE <<"Step " \o Itoa(i + 1) \o ": " \o a[i + 1] \o " vs " \o b[i + 1]>>)
            ELSE IF inA
            THEN <<"Step " \o Itoa(i + 1) \o ": " \o a[i + 1] \o " (missing in variant)">>
            ELSE <<"Step " \o Itoa(i + 1) \o ": " \o b[i + 1] \o " (extra in variant)">>
    IN  IF i >= maxLen THEN <<>>
        ELSE entry \o DifferencesByPresence(a, b, i + 1)

\* C23: FindUIFlowDifferences(f, f) is the empty list for every flow f.
C23_NoSelfDifferences ==
    (out.op = "FindUIFlowDifferences" /\ sourceConfig.UIFlow = config.UIFlow) =>
        out.differences = <<>>

\* a flow of two steps, one of them the empty token, compared with itself
C23_Witness ==
    /\ out.op = "FindUIFlowDifferences"
    /\ sourceConfig.UIFlow = <<"otp", "">>
    /\ config.UIFlow = <<"otp", "">>
    /\ out.differences = <<>>

\* C24: FindUIFlowDifferences(A, B) emits, in increasing index order over
\* [0, max(len(A), len(B))), exactly one entry per index where the flows
\* disagree, classified by presence: "A vs B" when both flows have an entry
\* there and the entries differ, "(missing in variant)" when only A has one,
\* "(extra in variant)" when only B has one, for every step token, the empty
\* string included.
C24_ClassifiedByPresence ==
    out.op = "FindUIFlowDifferences" =>
        out.differences = DifferencesByPresence(sourceConfig.UIFlow, config.UIFlow, 0)

\* C29: every variant returned by DetectABTestingVariants carries a non-empty
\* Differences list: FindUIFlowDifferences(a, b) is empty only if
\* AreUIFlowsIdentical(a, b), for all flows, those with empty-string tokens and
\* those differing only in length included.
C29_VariantsHaveDifferences ==
    out.op = "DetectABTestingVariants" =>
        /\ \A v \in 1..Len(out.variants) : out.variants[v].Differences # <<>>
        /\ FindUIFlowDifferences(sourceConfig.UIFlow, config.UIFlow) = <<>> =>
               AreUIFlowsIdentical(sourceConfig.UIFlow, config.UIFlow)

(***************************************************************************)
(* Claims on the Relation Resolver's result list.                          *)
(***************************************************************************)
\* C22: the result list of the Relation Resolver has no two entries of the
\* same ConfigID, also when the corpus holds several documents of one ID, and
\* its entries appear in corpus traversal order: they are the entries of
\* documents at increasing positions of the corpus.
C22_DeduplicatedInOrder ==
    (out.op = "SearchRelatedConfigDetailed" /\ out.found) =>
        /\ \A i \in 1..Len(out.results), j \in 1..Len(out.results) :
              i # j => out.results[i].ConfigID # out.results[j].ConfigID
        /\ \E pos \in [1..Len(out.results) -> 1..Len(files)] :
              /\ \A i \in 1..Len(out.results), j \in 1..Len(out.results) :
                    i < j => pos[i] < pos[j]
              /\ \A i \in 1..Len(out.results) :
                    /\ files[pos[i]].config.ID = out.results[i].ConfigID
                    /\ files[pos[i]].config.Name = out.results[i].Name

\* two documents of ID 9054 that both match source 9097: one entry, the one of
\* the document traversed first
C22_Witness ==
    /\ out.op = "SearchRelatedConfigDetailed"
    /\ lenderConfigID = 9097
    /\ FileIDs = <<9054, 9097, 9054>>
    /\ files[1].name = "9054_old.json"
    /\ Len(out.results) = 1
    /\ out.results[1].ConfigID = 9054
    /\ out.results[1].Name = "v0.9.collect"

(***************************************************************************)
(* Corpus enumeration and source lookup of the two query implementations   *)
(* (package ui_version_check and pkg/config with pkg/analyzer).            *)
(***************************************************************************)
\* what the walk callbacks return when the walk hands them an error
WalkFuncOnError == "nil"

\* filepath.Walk with these callbacks: a root that cannot be read is handed to
\* the callback with the error and Walk returns what the callback returns; a
\* readable root has its files visited in traversal order
Walk(readable, fs) ==
    [visited |-> IF readable THEN fs ELSE <<>>,
     err |-> IF readable THEN "nil" ELSE WalkFuncOnError]

\* GetAllLenderConfigsFromPath on a folder that may not be enumerable: the
\* error of the walk is only printed
GetAllLenderConfigsFromWalk(readable, fs) ==
    GetAllLenderConfigsFromPath(Walk(readable, fs).visited)

\* LocalConfigProvider.LoadConfigs
LoadConfigs(readable, fs) ==
    LET walked == Walk(readable, fs)
    IN  IF walked.err # "nil" THEN [configs |-> <<>>, err |-> TRUE]
        ELSE LET read == SelectSeq(walked.visited,
                                   LAMBDA f : HasSuffix(f.name, ".json"))
             IN  [configs |-> [i \in 1..Len(read) |-> read[i].config],
                  err |-> FALSE]

\* LocalConfigProvider.LoadConfig: the first .json document whose name contains
\* the ID's digits, whose id is the ID and, when a lead source is given, that
\* has a lead_source tag of that value
LoadConfig(fs, configID, ls) ==
    LET hits == SelectSeq(fs, LAMBDA f :
                    /\ Contains(f.name, Itoa(configID))
                    /\ HasSuffix(f.name, ".json")
                    /\ f.config.ID = configID
                    /\ (ls # "" =>
                           \E i \in 1..Len(f.config.Tags) :
                               /\ f.config.Tags[i].Name = "lead_source"
                               /\ f.config.Tags[i].Value = ls))
    IN  IF hits = <<>> THEN [config |-> NoConfig, err |-> TRUE]
        ELSE [config |-> hits[1].config, err |-> FALSE]

\* AnalyzerService.SearchRelatedConfigs; its loop is that of
\* SearchRelatedConfigDetailed
SearchRelatedConfigs(fs, readable, configID, ls) ==
    LET loaded == LoadConfig(fs, configID, ls)
        all == LoadConfigs(readable, fs)
    IN  IF loaded.err THEN [err |-> TRUE, notFound |-> TRUE, results |-> <<>>]
        ELSE IF all.err THEN [err |-> TRUE, notFound |-> FALSE, results |-> <<>>]
        ELSE [err |-> FALSE, notFound |-> FALSE,
              results |-> SearchLoop(all.configs, <<>>, configID,
                                     SourceTags(loaded.config.Tags, ls),
                                     loaded.config.Name,
                                     DetectABTestingVariants(loaded.config, all.configs))]

\* the documents of a queried directory: two documents of ID 9054, one whose
\* name contains the digits 9054 and whose ID is 19054, a semi config and a
\* compatible config in a file whose name does not end in ".json"
QueryDocuments ==
    {File("9054.json", LenderConfig(9054, "v1.0.collect.organic", SourceTagList,
                                    "v9.1.5.0", FlowActive, 1)),
     File("9054_old.json", LenderConfig(9054, "v0.9.collect", SourceTagList,
                                        "v9.0.0.0", FlowActive, 0)),
     File("19054.json", LenderConfig(19054, "v2.0.collect",
                                     <<Tag("product_code", "P1")>>,
                                     "v9.4.0.0", FlowActive, 1)),
     File("9097.json", LenderConfig(9097, "v1.0.semi",
                                    <<Tag("product_code", "P1"),
                                      Tag("lead_source", "organic"),
                                      Tag("esign_flow_type", "semi")>>,
                                    "v9.2.0.0", <<"otp", "esign.review">>, 1)),
     File("9095.json.bak", LenderConfig(9095, "v1.0.auto_pcb",
                                        <<Tag("product_code", "P1"),
                                          Tag("lead_source", "organic"),
                                          Tag("flow_type", "auto_pcb")>>,
                                        "v9.2.0.0", <<"otp", "esign.review">>, 1))}

QueryOverrides == {"", "organic", "paid"}

InitQuery ==
    /\ files \in SeqsUpTo(QueryDocuments, MaxCorpus)
    /\ lenderConfigID \in QueryIDs
    /\ leadSource \in QueryOverrides
    /\ sourceConfig = NoConfig
    /\ config = NoConfig
    /\ sourceTags = NoTags
    /\ out = NoCall

\* SearchRelatedConfigDetailed(lenderConfigID, leadSource, folderPath) on a
\* folder that can or cannot be enumerated; the function returns only a list
QuerySearchRelatedConfigDetailed ==
    /\ out.op = "none"
    /\ \E readable \in BOOLEAN :
          LET found == SearchLenderConfigID(files, lenderConfigID)
          IN  /\ sourceConfig' = IF found = <<>> THEN NoConfig ELSE found[1].config
              /\ out' = [op |-> "SearchRelatedConfigDetailed",
                         folderReadable |-> readable,
                         notFound |-> found = <<>>,
                         err |-> FALSE,
                         results |-> IF found = <<>> THEN <<>>
                                     ELSE SearchRelatedConfigDetailed(
                                              Walk(readable, files).visited,
                                              found[1].config, lenderConfigID,
                                              leadSource)]
    /\ UNCHANGED <<config, sourceTags, files, lenderConfigID, leadSource>>

\* AnalyzerService.SearchRelatedConfigs(ctx, configID, leadSource, folderPath)
QuerySearchRelatedConfigs ==
    /\ out.op = "none"
    /\ \E readable \in BOOLEAN :
          /\ sourceConfig' = LoadConfig(files, lenderConfigID, leadSource).config
          /\ out' = [op |-> "SearchRelatedConfigs", folderReadable |-> readable]
                    @@ SearchRelatedConfigs(files, readable, lenderConfigID, leadSource)
    /\ UNCHANGED <<config, sourceTags, files, lenderConfigID, leadSource>>

NextQuery ==
    \/ QuerySearchRelatedConfigDetailed
    \/ QuerySearchRelatedConfigs

SpecQuery == InitQuery /\ [][NextQuery]_vars

\* a related-config query was answered
Queried == out.op \in {"SearchRelatedConfigDetailed", "SearchRelatedConfigs"}

\* C25: a corpus-level failure is fatal: if the corpus scope cannot be
\* enumerated at all, the related-config query returns an error instead of an
\* empty or partial result.
C25_CorpusFailureFatal ==
    (Queried /\ ~out.folderReadable /\ ~out.notFound) => out.err

\* C26: the query fails with a not-found outcome exactly when no document of
\* the requested source ID exists: if a config whose id is the requested ID
\* exists it is the one used as source, whatever lead-source override is
\* given, and if none exists no other config is used in its place and no
\* relations are produced.
C26_NotFoundIffAbsent ==
    Queried =>
        LET present == \E i \in 1..Len(files) : files[i].config.ID = lenderConfigID
        IN  /\ out.notFound <=> ~present
            /\ present => sourceConfig.ID = lenderConfigID
            /\ ~present => (sourceConfig = NoConfig /\ out.results = <<>>)

(***************************************************************************)
(* Journey templates on corpora where a related config's file cannot be    *)
(* found by SearchLenderConfigID.                                          *)
(***************************************************************************)
\* the source 9054, its A/B variant 9101, an auto_pcb config (9095) and a semi
\* config of ID 9097 stored in a file whose name does not contain its ID
TemplateDocuments ==
    {File("9054.json", LenderConfig(9054, "v1.0.collect.organic", SourceTagList,
                                    "v9.1.5.0", FlowActive, 1)),
     File("9101.json", LenderConfig(9101, "v1.0.collect.organic", SourceTagList,
                                    "v9.1.5.0", FlowFlash, 1)),
     File("9095.json", LenderConfig(9095, "v1.0.auto_pcb",
                                        <<Tag("product_code", "P1"),
                                          Tag("flow_type", "auto_pcb")>>,
                                        "v9.2.0.0", <<"otp", "esign.review">>, 1)),
     File("semi.json", LenderConfig(9097, "v1.0.semi",
                                    <<Tag("product_code", "P1"),
                                      Tag("lead_source", "organic"),
                                      Tag("esign_flow_type", "semi")>>,
                                    "v9.2.0.0", <<"otp", "esign.review">>, 1))}

InitTemplate ==
    /\ files \in SeqsUpTo(TemplateDocuments, MaxCorpus)
    /\ lenderConfigID \in QueryIDs
    /\ leadSource \in QueryLeadSources
    /\ sourceConfig = NoConfig
    /\ config = NoConfig
    /\ sourceTags = NoTags
    /\ out = NoCall

SpecTemplate == InitTemplate /\ [][NextJourney]_vars

\* the IDs of the non-A/B related configs, in relation order
NonABRelatedIDs ==
    LET nonAB == SelectSeq(out.results, LAMBDA r : ~r.IsABTesting)
    IN  [i \in 1..Len(nonAB) |-> nonAB[i].ConfigID]

\* C27: when a related target config cannot be found during
\* GenerateJourneyTemplate only that target's journey is skipped: the template
\* still holds the self-loop journey and one journey for every other non-A/B
\* related config, in relation order, and RelatedConfigIDs holds only the IDs
\* for which a journey was produced.
C27_OnlyMissingTargetSkipped ==
    HasTemplate =>
        LET journeys == out.template.Journeys
            produced == SelectSeq(NonABRelatedIDs, LAMBDA id :
                            SearchLenderConfigID(files, id) # <<>>)
        IN  /\ Len(journeys) >= 1
            /\ journeys[1].FromLenderConfigID = lenderConfigID
            /\ journeys[1].ToLenderConfigID = lenderConfigID
            /\ [i \in 1..(Len(journeys) - 1) |-> journeys[i + 1].ToLenderConfigID]
                   = produced
            /\ out.template.RelatedConfigIDs = produced

(***************************************************************************)
(* The ID-only search (SearchRelatedConfig) next to the detailed search.   *)
(***************************************************************************)
\* the flowType FindConfigsByTagsWithLeadSourceAndPathAndName folds out of the
\* source tags: flow_type only fills an empty value, esign_flow_type overwrites
RECURSIVE SourceFlowType(_, _)
SourceFlowType(tags, flowType) ==
    IF tags = <<>> THEN flowType
    ELSE IF Head(tags).Name = "flow_type"
         THEN SourceFlowType(Tail(tags), IF flowType = "" THEN Head(tags).Value
                                         ELSE flowType)
    ELSE IF Head(tags).Name = "esign_flow_type"
         THEN SourceFlowType(Tail(tags), Head(tags).Value)
    ELSE SourceFlowType(Tail(tags), flowType)

\* IsCompatibleByTagsWithLeadSource: three gates and no further condition; the
\* flow type takes no part
IsCompatibleByTagsWithLeadSource(cfg, ls, telcoCode, productCode, flowType) ==
    LET configLeadSources == ValuesOf(cfg.Tags, "lead_source")
        configTelcoCodes == ValuesOf(cfg.Tags, "telco_code")
        configProductCode == MapValue(cfg.Tags, "product_code")
    IN  IF productCode # "" /\ configProductCode # productCode THEN FALSE
        ELSE IF ls # "" /\ ~\E i \in 1..Len(configLeadSources) :
                                  configLeadSources[i] = ls THEN FALSE
        ELSE IF telcoCode # "" /\ ~\E i \in 1..Len(configTelcoCodes) :
                                         configTelcoCodes[i] = telcoCode THEN FALSE
        ELSE TRUE

\* FindConfigsByTagsWithLeadSourceAndPathAndName: the IDs of the compatible
\* configs of another name, in traversal order
FindConfigsByTagsWithLeadSourceAndPathAndName(srcTagList, targetLeadSource, fs, sourceName) ==
    LET ls == IF targetLeadSource # "" THEN targetLeadSource
              ELSE MapValue(srcTagList, "lead_source")
        telcoCode == MapValue(srcTagList, "telco_code")
        productCode == MapValue(srcTagList, "product_code")
        flowType == SourceFlowType(srcTagList, "")
        related == SelectSeq(GetAllLenderConfigsFromPath(fs), LAMBDA c :
                       /\ c.Name # sourceName
                       /\ IsCompatibleByTagsWithLeadSource(c, ls, telcoCode,
                                                           productCode, flowType))
    IN  [i \in 1..Len(related) |-> related[i].ID]

\* the loop of SearchRelatedConfig over relatedByTags with its relatedMap
RECURSIVE RelatedLoop(_, _, _)
RelatedLoop(relatedByTags, relatedConfigIDs, id) ==
    IF relatedByTags = <<>> THEN relatedConfigIDs
    ELSE LET configID == Head(relatedByTags)
             inRelatedMap == \E i \in 1..Len(relatedConfigIDs) :
                                 relatedConfigIDs[i] = configID
         IN  IF configID # id /\ ~inRelatedMap
             THEN RelatedLoop(Tail(relatedByTags), Append(relatedConfigIDs, configID), id)
             ELSE RelatedLoop(Tail(relatedByTags), relatedConfigIDs, id)

\* SearchRelatedConfig once the source config is read
SearchRelatedConfig(fs, srcConfig, id, ls) ==
    RelatedLoop(FindConfigsByTagsWithLeadSourceAndPathAndName(srcConfig.Tags, ls, fs,
                                                              srcConfig.Name),
                <<>>, id)

\* the tags of the source and of the candidate
AgreeTagPool ==
    {Tag("product_code", "P1"), Tag("lead_source", "organic"),
     Tag("telco_code", "T1"), Tag("telco_code", "T2")}

AgreeTagLists == SeqsUpTo(AgreeTagPool, MaxTags)

\* a corpus of the source 9054 and one candidate, 9095, of the source's name
\* or of another name
InitAgree ==
    /\ \E srcTagList \in AgreeTagLists, tags \in AgreeTagLists, name \in Names :
          files = <<File("9054.json", LenderConfig(9054, "v1.0.collect.organic",
                                                   srcTagList, "v9.1.5.0", FlowActive, 1)),
                    File("9095.json", LenderConfig(9095, name, tags, "v9.1.5.0",
                                                   FlowFlash, 1))>>
    /\ lenderConfigID = 9054
    /\ leadSource \in QueryLeadSources
    /\ sourceConfig = NoConfig
    /\ config = NoConfig
    /\ sourceTags = NoTags
    /\ out = NoCall

\* SearchRelatedConfig(lenderConfigID, leadSource, folderPath) on the first file
\* SearchLenderConfigID finds
CallSearchRelatedConfig ==
    /\ out.op = "none"
    /\ SearchLenderConfigID(files, lenderConfigID) # <<>>
    /\ sourceConfig' = SearchLenderConfigID(files, lenderConfigID)[1].config
    /\ out' = [op |-> "SearchRelatedConfig",
               ids |-> SearchRelatedConfig(files, sourceConfig', lenderConfigID,
                                           leadSource)]
    /\ UNCHANGED <<config, sourceTags, files, lenderConfigID, leadSource>>

NextAgree ==
    \/ CallSearchRelatedConfig
    \/ SearchRelated

SpecAgree == InitAgree /\ [][NextAgree]_vars

\* the ConfigIDs of the non-A/B results of the detailed search on the same
\* source, lead source and corpus
DetailedRoutingIDs ==
    {r.ConfigID : r \in {x \in Range(SearchRelatedConfigDetailed(
                                         files, sourceConfig, lenderConfigID,
                                         leadSource)) : ~x.IsABTesting}}

\* C30: the two related-config searches agree: for every source, lead-source
\* override and corpus, the set of IDs SearchRelatedConfig returns equals the
\* set of ConfigIDs of the non-A/B results of SearchRelatedConfigDetailed.
C30_SearchesAgree ==
    out.op = "SearchRelatedConfig" => Range(out.ids) = DetailedRoutingIDs

====
